---- MODULE Spec2Model ----
(***************************************************************************)
(* DataFetcher of native-ice-phishing/src/fetcher.ts: the five LRU caches, *)
(* the retry loops of the provider / signature-database accessors and the  *)
(* process-wide error collector.  Every `await` of a handler is a step     *)
(* boundary: a call sits at "await" while a remote request is in flight,   *)
(* at "sleep" during the 1-second setTimeout, and at "done" once returned. *)
(***************************************************************************)
EXTENDS Integers, Sequences, FiniteSets, TLC

VARIABLES eoaCache, codeCache, functionCache, nonceCache, ownerCache,
          errors, call, prev, started

vars == <<eoaCache, codeCache, functionCache, nonceCache, ownerCache,
          errors, call, prev, started>>

----------------------------------------------------------------------------
(* Bounds of the model *)

\* number of DataFetcher operations invoked in one behaviour
MaxCalls == 4

\* length of the longest transaction history an explorer answer carries
MaxHistory == 4

\* toTxCountThreshold of ./utils, which these sources import but do not
\* contain: the page size of getAddressInfo and the number of transactions
\* above which an address counts as busy
toTxCountThreshold == 2
MaxVictims == 4
LiveHistory == 1
LiveVictims == 2
MaxKeys == 2
ConcCalls == 3
RandomUnits == 4
MaxWorkEvents == 2
MaxUnits == 3
MaxLotteryEvents == 2
MaxSenders == 5
MaxTransfers == 5
MaxFunctionCalls == 2

\* capacities of the model's caches, standing for `max: 50000` (eoaCache,
\* nonceCache) and `max: 10000` (codeCache, functionCache, ownerCache)
eoaCacheMax == 2
codeCacheMax == 2
nonceCacheMax == 2
functionCacheMax == 2
ownerCacheMax == 2

----------------------------------------------------------------------------
(* Program constants *)

maxTries == 3
NonceSentinel == 100000

----------------------------------------------------------------------------
(* Inputs and remote answers *)

Procs == {1, 2}
SeqProcs == {1}

Addresses == {"a1", "a2", "a3"}
Blocks == {1, 2}
Slots == {0}
Selectors == {"0xa9059cbb", "0x095ea7b3", "0x23b872dd"}

Undefined == "undefined"

\* provider.getCode answers: "0x" for an address without code
Codes == {"0x", "0x6080"}
\* provider.getTransactionCount answers
Nonces == {0, 7}
\* provider.getStorageAt answers
StorageVals == {"0x00", "0x01"}
\* contract.owner() / contract.getOwner() answers
Owners == {"o1", "o2"}
\* bodies of the signature database, as character sequences
Bodies == { << >>,
            <<"4", "0", "4", ":", " ", "N", "o", "t">>,
            <<"f", "(", ")">>,
            <<"4", "(", ")">> }

----------------------------------------------------------------------------
(* lru-cache: a cache is a sequence of entries, least recently used first *)

LRUKeys(c) == { c[i].k : i \in 1..Len(c) }

LRUHas(c, k) == k \in LRUKeys(c)

LRUIndex(c, k) == CHOOSE i \in 1..Len(c) : c[i].k = k

LRUPeek(c, k) == c[LRUIndex(c, k)].v

LRURemove(c, k) == SelectSeq(c, LAMBDA e : e.k # k)

\* a get that reads the entry without refreshing its recency
LRUGetNoRefresh(c, k) == c

\* get(k) of a present key: the entry becomes the most recently used
LRUGet(c, k) == Append(LRURemove(c, k), [k |-> k, v |-> LRUPeek(c, k)])

\* a set that keeps the value a present key already has
LRUSetKeepsFirst(c, k, v, max) ==
    IF LRUHas(c, k) THEN LRUGet(c, k)
    ELSE IF Len(c) >= max THEN Append(Tail(c), [k |-> k, v |-> v])
    ELSE Append(c, [k |-> k, v |-> v])

\* set(k, v): update in place or insert, evicting the least recently used
LRUSet(c, k, v, max) ==
    IF LRUHas(c, k) THEN Append(LRURemove(c, k), [k |-> k, v |-> v])
    ELSE IF Len(c) >= max THEN Append(Tail(c), [k |-> k, v |-> v])
    ELSE Append(c, [k |-> k, v |-> v])

----------------------------------------------------------------------------
(* ErrorCache.add *)

ErrorCacheAdd(errs, source) == Append(errs, source)

----------------------------------------------------------------------------
(* Record of one invocation *)

NoCall == [pc |-> "done", op |-> "none", key |-> <<>>, tries |-> 0,
           calls |-> 0, hit |-> FALSE, stage |-> 0, code |-> Undefined,
           resp |-> Undefined, ret |-> Undefined, bval |-> FALSE,
           nval |-> 0, body |-> << >>, thrown |-> FALSE, ok |-> FALSE,
           evicted |-> {}, errBase |-> 0, args |-> << >>,
           result |-> << >>, pair |-> << >>, legs |-> << >>,
           msg |-> << >>, soft |-> 0, latestTo |-> "",
           transferObj |-> << >>, alertedAddresses |-> {}]

NewCall(op, key) == [NoCall EXCEPT !.op = op, !.key = key,
                                   !.errBase = Len(errors)]

\* The operations fall into groups by the cache they read and write; no
\* operation touches the cache of another group.  A behaviour exercises the
\* operations of one group.
Workload(op) ==
    CASE op \in {"getCode", "isEoa", "getStorageSlot"} -> "code"
      [] op = "getNonce" -> "nonce"
      [] op = "getSignature" -> "signature"
      [] op = "getOwner" -> "owner"
      [] OTHER -> "none"

CanBegin(p, op) ==
    /\ call[p].pc = "done"
    /\ started < MaxCalls
    /\ call[p].op = "none" \/ Workload(call[p].op) = Workload(op)

Begin(p) == /\ prev' = call[p]
            /\ started' = started + 1

Init == /\ eoaCache = << >>
        /\ codeCache = << >>
        /\ functionCache = << >>
        /\ nonceCache = << >>
        /\ ownerCache = << >>
        /\ errors = << >>
        /\ call = [p \in Procs |-> NoCall]
        /\ prev = NoCall
        /\ started = 0

----------------------------------------------------------------------------
(* Steps shared by the retry loops *)

\* catch block: tries++, then the 1-second setTimeout
Rejected(c) == [c EXCEPT !.tries = @ + 1, !.pc = "sleep"]

\* loop condition holds again: the next remote request is issued
Reissued(c) == [c EXCEPT !.pc = "await", !.calls = @ + 1]

Returned(c) == [c EXCEPT !.pc = "done"]

\* the keys a cache lost when it went from `before` to `after`
Lost(before, after) == LRUKeys(before) \ LRUKeys(after)

----------------------------------------------------------------------------
(* getCode and isEoa *)

\* a tail that caches every answer, "0x" included
GetCodeTailCachesEmpty(cache, address, code) ==
    IF code # Undefined /\ code # ""
    THEN LRUSet(cache, address, code, codeCacheMax)
    ELSE cache

\* if (code && code !== "0x") this.codeCache.set(address, code)
GetCodeTail(cache, address, code) ==
    IF code # Undefined /\ code # "" /\ code # "0x"
    THEN LRUSet(cache, address, code, codeCacheMax)
    ELSE cache

\* a tail that writes eoaCache before it tests the code
IsEoaTailCachesUndefined(cache, address, code) ==
    LRUSet(cache, address, code = "0x", eoaCacheMax)

\* a tail that, like getCode, keeps no entry for an address without code
IsEoaTailSkipsEmpty(cache, address, code) ==
    IF code = Undefined \/ code = "" \/ code = "0x"
    THEN cache
    ELSE LRUSet(cache, address, code = "0x", eoaCacheMax)

\* if (!code) return undefined; this.eoaCache.set(address, code === "0x")
IsEoaTail(cache, address, code) ==
    IF code = Undefined \/ code = ""
    THEN cache
    ELSE LRUSet(cache, address, code = "0x", eoaCacheMax)

\* getCode returns `code`; when isEoa awaits it, the rest of isEoa runs
ReturnCode(p, c, code) ==
    IF c.op = "isEoa"
    THEN /\ eoaCache' = IsEoaTail(eoaCache, c.key, code)
         /\ call' = [call EXCEPT ![p] =
               IF code = Undefined \/ code = ""
               THEN Returned([c EXCEPT !.code = code, !.ret = Undefined])
               ELSE Returned([c EXCEPT !.code = code, !.ret = "boolean",
                                       !.bval = (code = "0x"),
                                       !.evicted = @ \cup
                                           Lost(eoaCache, eoaCache')])]
    ELSE /\ eoaCache' = eoaCache
         /\ call' = [call EXCEPT ![p] =
               Returned([c EXCEPT !.code = code, !.ret = code])]

GetCodeCall(p, address) ==
    /\ CanBegin(p, "getCode")
    /\ Begin(p)
    /\ IF LRUHas(codeCache, address)
       THEN /\ codeCache' = LRUGet(codeCache, address)
            /\ ReturnCode(p, [NewCall("getCode", address) EXCEPT !.hit = TRUE],
                          LRUPeek(codeCache, address))
       ELSE /\ codeCache' = codeCache
            /\ eoaCache' = eoaCache
            /\ call' = [call EXCEPT ![p] =
                           Reissued(NewCall("getCode", address))]
    /\ UNCHANGED <<functionCache, nonceCache, ownerCache, errors>>

IsEoaCall(p, address) ==
    /\ CanBegin(p, "isEoa")
    /\ Begin(p)
    /\ IF LRUHas(eoaCache, address)
       THEN /\ eoaCache' = LRUGet(eoaCache, address)
            /\ codeCache' = codeCache
            /\ call' = [call EXCEPT ![p] =
                  Returned([NewCall("isEoa", address) EXCEPT
                               !.hit = TRUE, !.ret = "boolean",
                               !.bval = LRUPeek(eoaCache, address)])]
       ELSE IF LRUHas(codeCache, address)
       THEN /\ codeCache' = LRUGet(codeCache, address)
            /\ ReturnCode(p, NewCall("isEoa", address),
                          LRUPeek(codeCache, address))
       ELSE /\ codeCache' = codeCache
            /\ eoaCache' = eoaCache
            /\ call' = [call EXCEPT ![p] =
                           Reissued(NewCall("isEoa", address))]
    /\ UNCHANGED <<functionCache, nonceCache, ownerCache, errors>>

\* provider.getCode resolves: break, then the tail of getCode
GetCodeResolve(p, code) ==
    /\ call[p].pc = "await"
    /\ call[p].op \in {"getCode", "isEoa"}
    /\ codeCache' = GetCodeTail(codeCache, call[p].key, code)
    /\ ReturnCode(p, [call[p] EXCEPT !.ok = TRUE, !.resp = code,
                                     !.evicted = Lost(codeCache, codeCache')],
                  code)
    /\ UNCHANGED <<functionCache, nonceCache, ownerCache, errors, prev,
                   started>>

\* a catch block that records every failed attempt
GetCodeRejectLogsEvery(p) ==
    /\ call[p].pc = "await"
    /\ call[p].op \in {"getCode", "isEoa"}
    /\ call' = [call EXCEPT ![p] = Rejected(call[p])]
    /\ errors' = ErrorCacheAdd(errors, "fetcher.getCode")
    /\ UNCHANGED <<eoaCache, codeCache, functionCache, nonceCache,
                   ownerCache, prev, started>>

\* provider.getCode rejects: the catch block up to the setTimeout
GetCodeReject(p) ==
    /\ call[p].pc = "await"
    /\ call[p].op \in {"getCode", "isEoa"}
    /\ call' = [call EXCEPT ![p] = Rejected(call[p])]
    /\ errors' = IF call[p].tries + 1 = maxTries
                 THEN ErrorCacheAdd(errors, "fetcher.getCode")
                 ELSE errors
    /\ UNCHANGED <<eoaCache, codeCache, functionCache, nonceCache,
                   ownerCache, prev, started>>

\* the timer fires: next iteration, or the loop ends with code undefined
GetCodeWake(p) ==
    /\ call[p].pc = "sleep"
    /\ call[p].op \in {"getCode", "isEoa"}
    /\ IF call[p].tries < maxTries
       THEN /\ call' = [call EXCEPT ![p] = Reissued(call[p])]
            /\ UNCHANGED <<eoaCache, codeCache>>
       ELSE /\ codeCache' = GetCodeTail(codeCache, call[p].key, Undefined)
            /\ ReturnCode(p, call[p], Undefined)
    /\ UNCHANGED <<functionCache, nonceCache, ownerCache, errors, prev,
                   started>>

----------------------------------------------------------------------------
(* getStorageSlot *)

GetStorageSlotCall(p, address, slot, blockNumber) ==
    /\ CanBegin(p, "getStorageSlot")
    /\ Begin(p)
    /\ call' = [call EXCEPT ![p] =
          Reissued(NewCall("getStorageSlot", <<address, slot, blockNumber>>))]
    /\ UNCHANGED <<eoaCache, codeCache, functionCache, nonceCache,
                   ownerCache, errors>>

\* a resolve that keeps the slot value in the code cache
GetStorageSlotResolveCaches(p, storageSlot) ==
    /\ call[p].pc = "await"
    /\ call[p].op = "getStorageSlot"
    /\ call' = [call EXCEPT ![p] =
          Returned([call[p] EXCEPT !.ok = TRUE, !.resp = storageSlot,
                                   !.ret = storageSlot])]
    /\ codeCache' = LRUSet(codeCache, call[p].key[1], storageSlot,
                           codeCacheMax)
    /\ UNCHANGED <<eoaCache, functionCache, nonceCache, ownerCache, errors,
                   prev, started>>

GetStorageSlotResolve(p, storageSlot) ==
    /\ call[p].pc = "await"
    /\ call[p].op = "getStorageSlot"
    /\ call' = [call EXCEPT ![p] =
          Returned([call[p] EXCEPT !.ok = TRUE, !.resp = storageSlot,
                                   !.ret = storageSlot])]
    /\ UNCHANGED <<eoaCache, codeCache, functionCache, nonceCache,
                   ownerCache, errors, prev, started>>

GetStorageSlotReject(p) ==
    /\ call[p].pc = "await"
    /\ call[p].op = "getStorageSlot"
    /\ call' = [call EXCEPT ![p] = Rejected(call[p])]
    /\ errors' = IF call[p].tries + 1 = maxTries
                 THEN ErrorCacheAdd(errors, "fetcher.getStorageSlot")
                 ELSE errors
    /\ UNCHANGED <<eoaCache, codeCache, functionCache, nonceCache,
                   ownerCache, prev, started>>

\* a loop condition that admits one more attempt
GetStorageSlotWakeExtraTry(p) ==
    /\ call[p].pc = "sleep"
    /\ call[p].op = "getStorageSlot"
    /\ call' = [call EXCEPT ![p] =
          IF call[p].tries <= maxTries /\ call[p].calls <= maxTries
          THEN Reissued(call[p])
          ELSE Returned([call[p] EXCEPT !.ret = Undefined])]
    /\ UNCHANGED <<eoaCache, codeCache, functionCache, nonceCache,
                   ownerCache, errors, prev, started>>

GetStorageSlotWake(p) ==
    /\ call[p].pc = "sleep"
    /\ call[p].op = "getStorageSlot"
    /\ call' = [call EXCEPT ![p] =
          IF call[p].tries < maxTries
          THEN Reissued(call[p])
          ELSE Returned([call[p] EXCEPT !.ret = Undefined])]
    /\ UNCHANGED <<eoaCache, codeCache, functionCache, nonceCache,
                   ownerCache, errors, prev, started>>

----------------------------------------------------------------------------
(* getNonce *)

GetNonceCall(p, address) ==
    /\ CanBegin(p, "getNonce")
    /\ Begin(p)
    /\ IF LRUHas(nonceCache, address)
       THEN /\ nonceCache' = LRUGet(nonceCache, address)
            /\ call' = [call EXCEPT ![p] =
                  Returned([NewCall("getNonce", address) EXCEPT
                               !.hit = TRUE, !.ret = "number",
                               !.nval = LRUPeek(nonceCache, address)])]
       ELSE /\ nonceCache' = nonceCache
            /\ call' = [call EXCEPT ![p] =
                  Reissued([NewCall("getNonce", address) EXCEPT
                               !.ret = "number", !.nval = NonceSentinel])]
    /\ UNCHANGED <<eoaCache, codeCache, functionCache, ownerCache, errors>>

\* provider.getTransactionCount resolves: the nonce is cached inside the loop
GetNonceResolve(p, nonce) ==
    /\ call[p].pc = "await"
    /\ call[p].op = "getNonce"
    /\ nonceCache' = LRUSet(nonceCache, call[p].key, nonce, nonceCacheMax)
    /\ call' = [call EXCEPT ![p] =
          Returned([call[p] EXCEPT !.ok = TRUE, !.resp = nonce,
                       !.nval = nonce,
                       !.evicted = Lost(nonceCache, nonceCache')])]
    /\ UNCHANGED <<eoaCache, codeCache, functionCache, ownerCache, errors,
                   prev, started>>

GetNonceReject(p) ==
    /\ call[p].pc = "await"
    /\ call[p].op = "getNonce"
    /\ call' = [call EXCEPT ![p] = Rejected(call[p])]
    /\ errors' = IF call[p].tries + 1 = maxTries
                 THEN ErrorCacheAdd(errors, "fetcher.getNonce")
                 ELSE errors
    /\ UNCHANGED <<eoaCache, codeCache, functionCache, nonceCache,
                   ownerCache, prev, started>>

\* a loop exit that caches whatever nonce holds, the sentinel included
GetNonceWakeCachesSentinel(p) ==
    /\ call[p].pc = "sleep"
    /\ call[p].op = "getNonce"
    /\ IF call[p].tries < maxTries
       THEN /\ call' = [call EXCEPT ![p] = Reissued(call[p])]
            /\ nonceCache' = nonceCache
       ELSE /\ call' = [call EXCEPT ![p] = Returned(call[p])]
            /\ nonceCache' = LRUSet(nonceCache, call[p].key, call[p].nval,
                                    nonceCacheMax)
    /\ UNCHANGED <<eoaCache, codeCache, functionCache, ownerCache, errors,
                   prev, started>>

GetNonceWake(p) ==
    /\ call[p].pc = "sleep"
    /\ call[p].op = "getNonce"
    /\ call' = [call EXCEPT ![p] =
          IF call[p].tries < maxTries
          THEN Reissued(call[p])
          ELSE Returned(call[p])]
    /\ UNCHANGED <<eoaCache, codeCache, functionCache, nonceCache,
                   ownerCache, errors, prev, started>>

----------------------------------------------------------------------------
(* getSignature *)

\* response.startsWith(prefix)
StartsWith(s, prefix) ==
    /\ Len(s) >= Len(prefix)
    /\ SubSeq(s, 1, Len(prefix)) = prefix

\* a test that accepts every non-empty body
SignatureFoundAny(response) == response # << >>

\* if (response && !response.startsWith("404"))
SignatureFound(response) ==
    /\ response # << >>
    /\ ~StartsWith(response, <<"4", "0", "4">>)

GetSignatureCall(p, bytes) ==
    /\ CanBegin(p, "getSignature")
    /\ Begin(p)
    /\ IF LRUHas(functionCache, bytes)
       THEN /\ functionCache' = LRUGet(functionCache, bytes)
            /\ call' = [call EXCEPT ![p] =
                  Returned([NewCall("getSignature", bytes) EXCEPT
                               !.hit = TRUE, !.ret = "string",
                               !.body = LRUPeek(functionCache, bytes)])]
       ELSE /\ functionCache' = functionCache
            /\ call' = [call EXCEPT ![p] =
                           Reissued(NewCall("getSignature", bytes))]
    /\ UNCHANGED <<eoaCache, codeCache, nonceCache, ownerCache, errors>>

\* a tail that returns the signature without caching it
GetSignatureResolveNoCache(p, response) ==
    /\ call[p].pc = "await"
    /\ call[p].op = "getSignature"
    /\ call' = [call EXCEPT ![p] =
          IF SignatureFound(response)
          THEN Returned([call[p] EXCEPT !.ok = TRUE, !.resp = response,
                            !.ret = "string", !.body = response])
          ELSE Returned([call[p] EXCEPT !.ok = TRUE, !.resp = response,
                            !.ret = Undefined])]
    /\ UNCHANGED <<eoaCache, codeCache, functionCache, nonceCache,
                   ownerCache, errors, prev, started>>

\* fetch(url).text() resolves: break, then the tail of getSignature
GetSignatureResolve(p, response) ==
    /\ call[p].pc = "await"
    /\ call[p].op = "getSignature"
    /\ IF SignatureFound(response)
       THEN /\ functionCache' = LRUSet(functionCache, call[p].key, response,
                                       functionCacheMax)
            /\ call' = [call EXCEPT ![p] =
                  Returned([call[p] EXCEPT !.ok = TRUE, !.resp = response,
                               !.ret = "string", !.body = response,
                               !.evicted = Lost(functionCache,
                                                functionCache')])]
       ELSE /\ functionCache' = functionCache
            /\ call' = [call EXCEPT ![p] =
                  Returned([call[p] EXCEPT !.ok = TRUE, !.resp = response,
                               !.ret = Undefined])]
    /\ UNCHANGED <<eoaCache, codeCache, nonceCache, ownerCache, errors,
                   prev, started>>

\* a catch block that gives up with undefined instead of rethrowing
GetSignatureRejectFallsBack(p) ==
    /\ call[p].pc = "await"
    /\ call[p].op = "getSignature"
    /\ call' = [call EXCEPT ![p] =
          IF call[p].tries + 1 = maxTries
          THEN Returned([call[p] EXCEPT !.tries = @ + 1, !.ret = Undefined])
          ELSE Rejected(call[p])]
    /\ UNCHANGED <<eoaCache, codeCache, functionCache, nonceCache,
                   ownerCache, errors, prev, started>>

\* fetch rejects: the third failure is rethrown, without a setTimeout
GetSignatureReject(p) ==
    /\ call[p].pc = "await"
    /\ call[p].op = "getSignature"
    /\ call' = [call EXCEPT ![p] =
          IF call[p].tries + 1 = maxTries
          THEN Returned([call[p] EXCEPT !.tries = @ + 1, !.thrown = TRUE])
          ELSE Rejected(call[p])]
    /\ UNCHANGED <<eoaCache, codeCache, functionCache, nonceCache,
                   ownerCache, errors, prev, started>>

GetSignatureWake(p) ==
    /\ call[p].pc = "sleep"
    /\ call[p].op = "getSignature"
    /\ call[p].tries < maxTries
    /\ call' = [call EXCEPT ![p] = Reissued(call[p])]
    /\ UNCHANGED <<eoaCache, codeCache, functionCache, nonceCache,
                   ownerCache, errors, prev, started>>

----------------------------------------------------------------------------
(* getOwner *)

\* a key that leaves the block out
OwnerKeyAddressOnly(address, block) == address

\* `${address} - ${block}`
OwnerKey(address, block) == address \o " - " \o ToString(block)

\* stage 1: contract.owner() is in flight; stage 2: contract.getOwner()
GetOwnerCall(p, address, block) ==
    /\ CanBegin(p, "getOwner")
    /\ Begin(p)
    /\ IF LRUHas(ownerCache, OwnerKey(address, block))
       THEN /\ ownerCache' = LRUGet(ownerCache, OwnerKey(address, block))
            /\ call' = [call EXCEPT ![p] =
                  Returned([NewCall("getOwner", OwnerKey(address, block))
                            EXCEPT !.hit = TRUE,
                                   !.args = <<address, block>>,
                                   !.ret = LRUPeek(ownerCache,
                                               OwnerKey(address, block))])]
       ELSE /\ ownerCache' = ownerCache
            /\ call' = [call EXCEPT ![p] =
                  Reissued([NewCall("getOwner", OwnerKey(address, block))
                            EXCEPT !.stage = 1,
                                   !.args = <<address, block>>])]
    /\ UNCHANGED <<eoaCache, codeCache, functionCache, nonceCache, errors>>

\* owner() or getOwner() resolves
GetOwnerResolve(p, owner) ==
    /\ call[p].pc = "await"
    /\ call[p].op = "getOwner"
    /\ ownerCache' = LRUSet(ownerCache, call[p].key, owner, ownerCacheMax)
    /\ call' = [call EXCEPT ![p] =
          Returned([call[p] EXCEPT !.ok = TRUE, !.resp = owner,
                       !.ret = owner,
                       !.evicted = Lost(ownerCache, ownerCache')])]
    /\ UNCHANGED <<eoaCache, codeCache, functionCache, nonceCache, errors,
                   prev, started>>

\* owner() rejects: the outer catch calls getOwner()
GetOwnerFallback(p) ==
    /\ call[p].pc = "await"
    /\ call[p].op = "getOwner"
    /\ call[p].stage = 1
    /\ call' = [call EXCEPT ![p] =
          Reissued([call[p] EXCEPT !.tries = @ + 1, !.stage = 2])]
    /\ UNCHANGED <<eoaCache, codeCache, functionCache, nonceCache,
                   ownerCache, errors, prev, started>>

\* getOwner() rejects too: owner = "", which is cached and returned
GetOwnerReject(p) ==
    /\ call[p].pc = "await"
    /\ call[p].op = "getOwner"
    /\ call[p].stage = 2
    /\ ownerCache' = LRUSet(ownerCache, call[p].key, "", ownerCacheMax)
    /\ call' = [call EXCEPT ![p] =
          Returned([call[p] EXCEPT !.tries = @ + 1, !.ret = "",
                       !.evicted = Lost(ownerCache, ownerCache')])]
    /\ UNCHANGED <<eoaCache, codeCache, functionCache, nonceCache, errors,
                   prev, started>>

----------------------------------------------------------------------------
(* One operation at a time, as the host delivers one event at a time *)

Next ==
    \E p \in SeqProcs :
        \/ \E a \in Addresses : GetCodeCall(p, a)
        \/ \E a \in Addresses : IsEoaCall(p, a)
        \/ \E c \in Codes : GetCodeResolve(p, c)
        \/ GetCodeReject(p)
        \/ GetCodeWake(p)
        \/ \E a \in Addresses, s \in Slots, b \in Blocks :
               GetStorageSlotCall(p, a, s, b)
        \/ \E v \in StorageVals : GetStorageSlotResolve(p, v)
        \/ GetStorageSlotReject(p)
        \/ GetStorageSlotWake(p)
        \/ \E a \in Addresses : GetNonceCall(p, a)
        \/ \E n \in Nonces : GetNonceResolve(p, n)
        \/ GetNonceReject(p)
        \/ GetNonceWake(p)
        \/ \E b \in Selectors : GetSignatureCall(p, b)
        \/ \E r \in Bodies : GetSignatureResolve(p, r)
        \/ GetSignatureReject(p)
        \/ GetSignatureWake(p)
        \/ \E a \in Addresses, b \in Blocks : GetOwnerCall(p, a, b)
        \/ \E o \in Owners : GetOwnerResolve(p, o)
        \/ GetOwnerFallback(p)
        \/ GetOwnerReject(p)

Spec == Init /\ [][Next]_vars

----------------------------------------------------------------------------
(* Block-explorer answers *)

maxRetries == 3

MsgOK == <<"O", "K">>
MsgNotOk == <<"N", "O", "T", "O", "K">>
MsgNotOkRate == <<"N", "O", "T", "O", "K", "-", "r", "a", "t", "e">>
MsgQueryTimeout == <<"Q", "u", "e", "r", "y", " ", "T", "i", "m", "e", "o", "u", "t", " ", "o", "c", "c", "u", "r", "e", "d">>
MsgNoTransactions == <<"N", "o", " ", "t", "r", "a", "n", "s", "a", "c", "t", "i", "o", "n", "s", " ", "f", "o", "u", "n", "d">>
MsgNoRecords == <<"N", "o", " ", "r", "e", "c", "o", "r", "d", "s", " ", "f", "o", "u", "n", "d">>

Messages == {MsgOK, MsgNotOk, MsgNotOkRate, MsgQueryTimeout,
             MsgNoTransactions, MsgNoRecords}

\* a test that lets "No transactions found" through
IsSoftFailureNoTx(message) ==
    \/ StartsWith(message, <<"N", "O", "T", "O", "K">>)
    \/ StartsWith(message, <<"Q", "u", "e", "r", "y", " ", "T", "i", "m", "e", "o", "u", "t">>)

\* result.message.startsWith("NOTOK") || ...("Query Timeout") ||
\* ...("No transactions found")
IsSoftFailure(message) ==
    \/ StartsWith(message, <<"N", "O", "T", "O", "K">>)
    \/ StartsWith(message, <<"Q", "u", "e", "r", "y", " ", "T", "i", "m", "e", "o", "u", "t">>)
    \/ StartsWith(message, <<"N", "o", " ", "t", "r", "a", "n", "s", "a", "c", "t", "i", "o", "n", "s", " ", "f", "o", "u", "n", "d">>)

Hashes == {"h", "g"}

\* an entry of a `txlist` answer
Tx(hash, from, to, value, blockNumber) ==
    [hash |-> hash, from |-> from, to |-> to, value |-> value,
     blockNumber |-> blockNumber]

SeqsUpTo(S, n) == UNION { [1..k -> S] : k \in 0..n }

DigitValue(d) ==
    CASE d = "0" -> 0 [] d = "1" -> 1 [] d = "2" -> 2 [] d = "3" -> 3
      [] d = "4" -> 4 [] d = "5" -> 5 [] d = "6" -> 6 [] d = "7" -> 7
      [] d = "8" -> 8 [] d = "9" -> 9

\* parseInt of a string of decimal digits
RECURSIVE ParseInt(_)
ParseInt(s) ==
    IF Len(s) = 0 THEN 0
    ELSE 10 * ParseInt(SubSeq(s, 1, Len(s) - 1)) + DigitValue(s[Len(s)])

----------------------------------------------------------------------------
(* What each history operation computes from the answer it accepted *)

\* getAddressInfo: [isFirstInteraction, hasHighNumberOfTotalTxs]
GetAddressInfoResult(result, txFrom, hash) ==
    LET numberOfInteractions ==
            Cardinality({ i \in 1..Len(result) :
                \/ result[i].to = txFrom
                \/ result[i].from = txFrom /\ result[i].hash # hash })
    IN  <<numberOfInteractions = 0, Len(result) > toTxCountThreshold>>

\* haveInteractedAgain: some victim sent more than one transaction to the
\* attacker
HaveInteractedAgainResult(result, attacker, victims) ==
    \E v \in 1..Len(victims) :
        Cardinality({ i \in 1..Len(result) :
            result[i].to = attacker /\ result[i].from = victims[v] }) > 1

\* a window that takes in the block of the transaction itself
IsRecentlyInvolvedOwnBlock(result, hash, blockNumber) ==
    \E i \in 1..Len(result) :
        /\ result[i].hash # hash
        /\ result[i].value # <<"0">>
        /\ ParseInt(result[i].blockNumber) >= blockNumber - 10
        /\ ParseInt(result[i].blockNumber) <= blockNumber

\* isRecentlyInvolvedInTransfer
IsRecentlyInvolvedResult(result, hash, blockNumber) ==
    \E i \in 1..Len(result) :
        /\ result[i].hash # hash
        /\ result[i].value # <<"0">>
        /\ ParseInt(result[i].blockNumber) >= blockNumber - 10
        /\ ParseInt(result[i].blockNumber) < blockNumber

\* a lookback that accepts a target among the first three entries, with the
\* entries before it as its window
HasValidEntriesShortWindow(result, hash) ==
    \E i \in 1..Len(result) :
        /\ result[i].hash = hash
        /\ LET prevEntries == SubSeq(result, IF i > 3 THEN i - 3 ELSE 1, i - 1)
           IN  /\ \A j \in 1..Len(prevEntries) : prevEntries[j].value # <<"0">>
               /\ \A j, k \in 1..Len(prevEntries) :
                      j # k => prevEntries[j].from # prevEntries[k].from

\* a lookback that does not look at the values
HasValidEntriesNoZeroCheck(result, hash) ==
    \E i \in 1..Len(result) :
        /\ result[i].hash = hash
        /\ i - 1 >= 3
        /\ LET prevEntries == SubSeq(result, i - 3, i - 1)
           IN  ~\E j \in 1..3 : \E k \in 1..(j - 1) :
                     prevEntries[k].from = prevEntries[j].from

\* hasValidEntries: entry.hash === hash && i >= 3 (indices from 0), the
\* three entries before it hold no value "0" and no repeated `from`
HasValidEntriesResult(result, hash) ==
    \E i \in 1..Len(result) :
        /\ result[i].hash = hash
        /\ i - 1 >= 3
        /\ LET prevEntries == SubSeq(result, i - 3, i - 1)
               hasZeroValue ==
                   \E j \in 1..3 : prevEntries[j].value = <<"0">>
               hasDuplicateFrom ==
                   \E j \in 1..3 :
                       (CHOOSE k \in 1..3 :
                            /\ prevEntries[k].from = prevEntries[j].from
                            /\ \A m \in 1..(k - 1) :
                                   prevEntries[m].from # prevEntries[j].from)
                       # j
           IN  ~hasZeroValue /\ ~hasDuplicateFrom

\* getAddresses: the `to` of the latest entry sent by the address before
\* the last entry with the target hash, or ""
LatestTo(result, address, hash) ==
    LET is == { i \in 1..Len(result) : result[i].hash = hash }
    IN  IF is = {} THEN ""
        ELSE LET i == CHOOSE x \in is : \A y \in is : y <= x
                 js == { j \in 1..(i - 1) : result[j].from = address }
             IN  IF js = {} THEN ""
                 ELSE result[CHOOSE x \in js : \A y \in js : y <= x].to

\* a comparison that counts the target transaction as well
IsValueUniqueCountsTarget(result, hash, value) ==
    ~\E i \in 1..Len(result) : result[i].value = value

\* isValueUnique
IsValueUniqueResult(result, hash, value) ==
    ~\E i \in 1..Len(result) :
          result[i].hash # hash /\ result[i].value = value

----------------------------------------------------------------------------
(* The answers the explorer may give to each operation *)

ExplorerOps == {"getAddressInfo", "haveInteractedAgain",
                "isRecentlyInvolvedInTransfer", "hasValidEntries",
                "getAddresses", "getSourceCode", "getNumberOfLogs",
                "isValueUnique"}

Values == {<<"0">>, <<"5">>}

\* blocks around the block 100 of the transaction under inspection
BlockNumbers == {<<"8", "9">>, <<"9", "0">>, <<"9", "9">>,
                 <<"1", "0", "0">>}

SourceCodes == {"", "contract C {}"}

ResultsOf(c) ==
    CASE c.op = "getAddressInfo" ->
            SeqsUpTo({ Tx(h, f, t, <<"5">>, <<"9", "9">>) :
                         h \in Hashes, f \in {"a2", "a3"},
                         t \in {"a1", "a2"} }, MaxHistory - 1)
      [] c.op = "haveInteractedAgain" ->
            SeqsUpTo({ Tx("g", f, t, <<"5">>, <<"9", "9">>) :
                         f \in {"v1", "v2"}, t \in {"att", "a1"} },
                     MaxHistory - 1)
      [] c.op = "isRecentlyInvolvedInTransfer" ->
            SeqsUpTo({ Tx("g", "a2", "a1", <<"5">>, b) : b \in BlockNumbers }
                     \cup { Tx("h", "a2", "a1", <<"5">>, <<"9", "9">>),
                            Tx("g", "a2", "a1", <<"0">>, <<"9", "9">>) },
                     MaxHistory - 1)
      [] c.op = "hasValidEntries" ->
            SeqsUpTo({ Tx("h", "a1", "a1", <<"5">>, <<"9", "9">>) }
                     \cup { Tx("g", f, "a1", <<"5">>, <<"9", "9">>) :
                                f \in {"a1", "a2", "a3"} }
                     \cup { Tx("g", f, "a1", <<"0">>, <<"9", "9">>) :
                                f \in {"a2", "a3"} }, MaxHistory)
      [] c.op = "getAddresses" ->
            IF c.stage = 1
            THEN SeqsUpTo({ Tx(h, f, t, <<"5">>, <<"9", "9">>) :
                              h \in Hashes, f \in {"a1", "a2"},
                              t \in {"a1", "a3"} }, MaxHistory - 1)
            ELSE SeqsUpTo({ Tx("g", f, "a1", <<"5">>, <<"9", "9">>) :
                              f \in {"a2", "a3"} }, 1)
      [] c.op = "getSourceCode" ->
            SeqsUpTo({ [SourceCode |-> x] : x \in SourceCodes }, 1)
      [] c.op = "getNumberOfLogs" ->
            SeqsUpTo({ [address |-> "a1"] }, 2)
      [] c.op = "isValueUnique" ->
            SeqsUpTo({ Tx(h, "a2", "a1", v, <<"9", "9">>) :
                         h \in Hashes, v \in Values }, MaxHistory - 1)

----------------------------------------------------------------------------
(* The retry loop of the block-explorer operations *)

\* a client that answers false wherever it gives up
FallbackAlwaysFalse(c) ==
    CASE c.op \in {"getAddressInfo", "getAddresses"} ->
            [c EXCEPT !.ret = "null,null"]
      [] c.op \in {"haveInteractedAgain", "isRecentlyInvolvedInTransfer",
                   "hasValidEntries", "isValueUnique"} ->
            [c EXCEPT !.ret = "boolean", !.bval = FALSE]
      [] c.op = "getSourceCode" -> [c EXCEPT !.ret = ""]
      [] c.op = "getNumberOfLogs" -> [c EXCEPT !.ret = "number", !.nval = 10]

\* what each operation returns on `attempt === maxRetries`
Fallback(c) ==
    CASE c.op \in {"getAddressInfo", "getAddresses"} ->
            [c EXCEPT !.ret = "null,null"]
      [] c.op \in {"haveInteractedAgain", "isRecentlyInvolvedInTransfer"} ->
            [c EXCEPT !.ret = "boolean", !.bval = TRUE]
      [] c.op \in {"hasValidEntries", "isValueUnique"} ->
            [c EXCEPT !.ret = "boolean", !.bval = FALSE]
      [] c.op = "getSourceCode" -> [c EXCEPT !.ret = ""]
      [] c.op = "getNumberOfLogs" -> [c EXCEPT !.ret = "number", !.nval = 10]

\* an attempt failed: the final one returns the fallback, any other one is
\* followed at once by the next fetch of the loop
FailedAttempt(c) ==
    IF c.tries + 1 = maxRetries
    THEN Returned(Fallback([c EXCEPT !.tries = @ + 1]))
    ELSE [c EXCEPT !.tries = @ + 1, !.calls = @ + 1]

ReturnBoolean(c, b) == Returned([c EXCEPT !.ret = "boolean", !.bval = b])

\* reading a property of an element the answer does not hold
ThrowTypeError(c) == Returned([c EXCEPT !.thrown = TRUE])

\* the code after the loop, run on the answer that ended the loop
Evaluate(c, result) ==
    CASE c.op = "getAddressInfo" ->
            Returned([c EXCEPT !.ret = "pair",
                !.pair = GetAddressInfoResult(result, c.args[2], c.args[4])])
      [] c.op = "haveInteractedAgain" ->
            ReturnBoolean(c,
                HaveInteractedAgainResult(result, c.args[1], c.args[2]))
      [] c.op = "isRecentlyInvolvedInTransfer" ->
            ReturnBoolean(c,
                IsRecentlyInvolvedResult(result, c.args[2], c.args[4]))
      [] c.op = "hasValidEntries" ->
            ReturnBoolean(c, HasValidEntriesResult(result, c.args[3]))
      [] c.op = "getAddresses" ->
            IF c.stage = 1
            THEN IF Len(result) = 0 THEN ThrowTypeError(c)
                 ELSE IF result[1].to = c.args[1]
                 THEN Returned([c EXCEPT !.ret = "pair",
                          !.pair = <<result[1].from,
                                     LatestTo(result, c.args[1], c.args[3])>>])
                 ELSE [c EXCEPT !.stage = 2, !.tries = 0, !.calls = 1,
                          !.ok = FALSE,
                          !.latestTo = LatestTo(result, c.args[1], c.args[3])]
            ELSE IF Len(result) = 0 THEN ThrowTypeError(c)
                 ELSE Returned([c EXCEPT !.ret = "pair",
                          !.pair = <<result[1].from, c.latestTo>>])
      [] c.op = "getSourceCode" ->
            IF Len(result) = 0 THEN ThrowTypeError(c)
            ELSE Returned([c EXCEPT !.ret = result[1].SourceCode])
      [] c.op = "getNumberOfLogs" ->
            Returned([c EXCEPT !.ret = "number", !.nval = Len(result)])
      [] c.op = "isValueUnique" ->
            ReturnBoolean(c, IsValueUniqueResult(result, c.args[3], c.args[4]))

\* loop entry: attempt = 1, the first fetch is issued
FirstAttempt(op, args) ==
    [NewCall(op, args[1]) EXCEPT !.pc = "await", !.calls = 1, !.stage = 1,
                                 !.args = args]

GetAddressInfoCall(p) ==
    /\ call[p].pc = "done"
    /\ \E txFrom \in {"a2", "a3"} :
           call' = [call EXCEPT ![p] = FirstAttempt("getAddressInfo", <<"a1", txFrom, 1, "h">>)]
    /\ UNCHANGED <<eoaCache, codeCache, functionCache, nonceCache, ownerCache,
                   errors, prev, started>>

HaveInteractedAgainCall(p) ==
    /\ call[p].pc = "done"
    /\ \E victims \in {<< >>, <<"v1">>, <<"v1", "v2">>} :
           call' = [call EXCEPT ![p] = FirstAttempt("haveInteractedAgain", <<"att", victims, 1>>)]
    /\ UNCHANGED <<eoaCache, codeCache, functionCache, nonceCache, ownerCache,
                   errors, prev, started>>

IsRecentlyInvolvedInTransferCall(p) ==
    /\ call[p].pc = "done"
    /\ call' = [call EXCEPT ![p] = FirstAttempt("isRecentlyInvolvedInTransfer", <<"a1", "h", 1, 100>>)]
    /\ UNCHANGED <<eoaCache, codeCache, functionCache, nonceCache, ownerCache,
                   errors, prev, started>>

HasValidEntriesCall(p) ==
    /\ call[p].pc = "done"
    /\ call' = [call EXCEPT ![p] = FirstAttempt("hasValidEntries", <<"a1", 1, "h">>)]
    /\ UNCHANGED <<eoaCache, codeCache, functionCache, nonceCache, ownerCache,
                   errors, prev, started>>

GetAddressesCall(p) ==
    /\ call[p].pc = "done"
    /\ call' = [call EXCEPT ![p] = FirstAttempt("getAddresses", <<"a1", 1, "h">>)]
    /\ UNCHANGED <<eoaCache, codeCache, functionCache, nonceCache, ownerCache,
                   errors, prev, started>>

GetSourceCodeCall(p) ==
    /\ call[p].pc = "done"
    /\ call' = [call EXCEPT ![p] = FirstAttempt("getSourceCode", <<"a1", 1>>)]
    /\ UNCHANGED <<eoaCache, codeCache, functionCache, nonceCache, ownerCache,
                   errors, prev, started>>

GetNumberOfLogsCall(p) ==
    /\ call[p].pc = "done"
    /\ call' = [call EXCEPT ![p] = FirstAttempt("getNumberOfLogs", <<"a1", 100, 1>>)]
    /\ UNCHANGED <<eoaCache, codeCache, functionCache, nonceCache, ownerCache,
                   errors, prev, started>>

IsValueUniqueCall(p) ==
    /\ call[p].pc = "done"
    /\ \E value \in Values :
           call' = [call EXCEPT ![p] = FirstAttempt("isValueUnique", <<"a1", 1, "h", value>>)]
    /\ UNCHANGED <<eoaCache, codeCache, functionCache, nonceCache, ownerCache,
                   errors, prev, started>>

\* the fetch rejects, the body is not JSON, or the answer has no message:
\* all land in the catch block
ExplorerThrow(p) ==
    /\ call[p].pc = "await"
    /\ call[p].op \in ExplorerOps
    /\ call' = [call EXCEPT ![p] = FailedAttempt(call[p])]
    /\ UNCHANGED <<eoaCache, codeCache, functionCache, nonceCache, ownerCache,
                   errors, prev, started>>

\* the explorer answers with a message and a result
ExplorerAnswer(p) ==
    /\ call[p].pc = "await"
    /\ call[p].op \in ExplorerOps
    /\ \E message \in Messages :
           IF IsSoftFailure(message)
           THEN call' = [call EXCEPT ![p] =
                    [FailedAttempt(call[p]) EXCEPT !.msg = message,
                                                   !.soft = @ + 1]]
           ELSE \E result \in ResultsOf(call[p]) :
                    call' = [call EXCEPT ![p] =
                        Evaluate([call[p] EXCEPT !.msg = message, !.ok = TRUE,
                                                 !.result = result], result)]
    /\ UNCHANGED <<eoaCache, codeCache, functionCache, nonceCache, ownerCache,
                   errors, prev, started>>

----------------------------------------------------------------------------
(* haveInteractedWithSameAddress: one retry loop per victim under
   Promise.all, then the aggregation *)

VictimName(i) == "v" \o ToString(i)

\* the `to` fields of the histories a victim's fetch may be answered with
LegResults(attacker, victim) ==
    { << >>, <<[to |-> "x"]>>, <<[to |-> "y"]>>,
      <<[to |-> "x"], [to |-> "x"]>>, <<[to |-> "x"], [to |-> "y"]>>,
      <<[to |-> attacker]>>, <<[to |-> victim], [to |-> "y"]>> }

\* a leg of the fan-out: the async callback of victims.map; `tries` and
\* `calls` are the loop's counters, gone once the callback has returned a
\* history
NewLeg(victim) == [victim |-> victim, pc |-> "await", tries |-> 0,
                   calls |-> 1, failed |-> FALSE, result |-> << >>,
                   tos |-> {}]

\* victimInteractions[victim]: the distinct `to` addresses other than the
\* attacker and the victim
ToAddresses(result, attacker, victim) ==
    { result[k].to : k \in 1..Len(result) } \ {attacker, victim}

\* a threshold rounded down
MajorityThresholdFloor(n) == n \div 2

\* Math.ceil(victims.length / 2)
MajorityThreshold(n) == (n + 1) \div 2

\* frequencyMap[address].length >= majorityThreshold for some address
Aggregate(legs, n) ==
    LET victimInteractions ==
            { <<legs[i].victim, legs[i].tos>> :
                  i \in { j \in 1..Len(legs) : ~legs[j].failed } }
        addresses == UNION { vi[2] : vi \in victimInteractions }
        frequencyMap ==
            [a \in addresses |->
                { vi[1] : vi \in { w \in victimInteractions : a \in w[2] } }]
    IN  \E a \in addresses :
            Cardinality(frequencyMap[a]) >= MajorityThreshold(n)

\* a join that settles as soon as one leg has given up
JoinReadyOnFailure(legs) ==
    \/ \A i \in 1..Len(legs) : legs[i].pc = "done"
    \/ \E i \in 1..Len(legs) : legs[i].failed

\* Promise.all over callbacks that never reject: settles when all have
\* returned
JoinReady(legs) == \A i \in 1..Len(legs) : legs[i].pc = "done"

\* a failed attempt of a leg: the final one sets the shared flag and returns
LegFailed(leg) ==
    IF leg.tries + 1 = maxRetries
    THEN [leg EXCEPT !.tries = @ + 1, !.pc = "done", !.failed = TRUE]
    ELSE [leg EXCEPT !.tries = @ + 1, !.calls = @ + 1]

\* victims.map runs every callback up to its first await: all first fetches
\* are out when the call reaches Promise.all (`calls` counts the loops begun)
HaveInteractedWithSameAddressCall(p) ==
    /\ call[p].pc = "done"
    /\ \E n \in 0..MaxVictims :
           LET victims == [i \in 1..n |-> VictimName(i)]
           IN  call' = [call EXCEPT ![p] =
                   [NewCall("haveInteractedWithSameAddress", "att") EXCEPT
                       !.pc = "await", !.calls = n,
                       !.args = <<"att", victims, 1>>,
                       !.legs = [i \in 1..n |-> NewLeg(victims[i])]]]
    /\ UNCHANGED <<eoaCache, codeCache, functionCache, nonceCache, ownerCache,
                   errors, prev, started>>

LegPending(p, i) ==
    /\ call[p].pc = "await"
    /\ call[p].op = "haveInteractedWithSameAddress"
    /\ i \in 1..Len(call[p].legs)
    /\ call[p].legs[i].pc = "await"

LegStep(p, i, leg) ==
    /\ call' = [call EXCEPT ![p] =
           [call[p] EXCEPT !.legs[i] = leg, !.bval = @ \/ leg.failed]]
    /\ UNCHANGED <<eoaCache, codeCache, functionCache, nonceCache, ownerCache,
                   errors, prev, started>>

\* the fetch of one victim's history rejects
LegThrow(p) ==
    \E i \in 1..MaxVictims :
        /\ LegPending(p, i)
        /\ LegStep(p, i, LegFailed(call[p].legs[i]))

\* the explorer answers the fetch of one victim's history
LegAnswer(p) ==
    \E i \in 1..MaxVictims :
        /\ LegPending(p, i)
        /\ \E message \in {MsgOK, MsgNotOk, MsgNoTransactions} :
               IF IsSoftFailure(message)
               THEN LegStep(p, i, LegFailed(call[p].legs[i]))
               ELSE \E result \in LegResults(call[p].args[1],
                                             call[p].legs[i].victim) :
                        LegStep(p, i, [call[p].legs[i] EXCEPT
                            !.pc = "done", !.tries = 0, !.calls = 0,
                            !.result = result,
                            !.tos = ToAddresses(result, call[p].args[1],
                                                call[p].legs[i].victim)])

\* Promise.all has settled: build the frequency map and return
Join(p) ==
    /\ call[p].pc = "await"
    /\ call[p].op = "haveInteractedWithSameAddress"
    /\ JoinReady(call[p].legs)
    /\ call' = [call EXCEPT ![p] =
           Returned([call[p] EXCEPT !.ret = "boolean",
               !.ok = \A i \in 1..Len(call[p].legs) : ~call[p].legs[i].failed,
               !.bval = @ \/ Aggregate(call[p].legs, Len(call[p].args[2]))])]
    /\ UNCHANGED <<eoaCache, codeCache, functionCache, nonceCache, ownerCache,
                   errors, prev, started>>

----------------------------------------------------------------------------
(* getLabel *)

ChainIds == {1, 56, 137, 250}

\* a label service that also serves chain 56
LabelChainsWithBsc == {1, 56, 137, 250}

\* [1, 137, 250].includes(chainId)
LabelChains == {1, 137, 250}

Labels == {"phish", "cex"}

LabelEvent(label) == [label |-> [label |-> label]]

\* response.events of the labels API (limit=1 in the query, the answer is
\* not checked against it)
EventLists == SeqsUpTo({ LabelEvent(l) : l \in Labels }, 2)

GetLabelCall(p) ==
    /\ call[p].pc = "done"
    /\ \E address \in {"a1"}, chainId \in ChainIds :
           LET c == [NewCall("getLabel", address) EXCEPT
                        !.args = <<address, chainId>>]
           IN  call' = [call EXCEPT ![p] =
                   IF chainId \notin LabelChains
                   THEN Returned([c EXCEPT !.ret = ""])
                   ELSE [c EXCEPT !.pc = "await", !.calls = 1]]
    /\ UNCHANGED <<eoaCache, codeCache, functionCache, nonceCache, ownerCache,
                   errors, prev, started>>

\* the labels API answers with a list of events
GetLabelAnswer(p) ==
    /\ call[p].pc = "await"
    /\ call[p].op = "getLabel"
    /\ \E events \in EventLists :
           call' = [call EXCEPT ![p] =
               Returned([call[p] EXCEPT !.ok = TRUE, !.result = events,
                   !.ret = IF Len(events) > 0 THEN events[1].label.label
                           ELSE ""])]
    /\ UNCHANGED <<eoaCache, codeCache, functionCache, nonceCache, ownerCache,
                   errors, prev, started>>

\* the fetch rejects, the body is not JSON or holds no events array: the
\* catch block logs and starts the 1-second wait
GetLabelThrow(p) ==
    /\ call[p].pc = "await"
    /\ call[p].op = "getLabel"
    /\ call' = [call EXCEPT ![p] = Rejected(call[p])]
    /\ UNCHANGED <<eoaCache, codeCache, functionCache, nonceCache, ownerCache,
                   errors, prev, started>>

\* the wait is over: i++ and the loop test
GetLabelWake(p) ==
    /\ call[p].pc = "sleep"
    /\ call[p].op = "getLabel"
    /\ call' = [call EXCEPT ![p] =
           IF call[p].tries < maxRetries
           THEN Reissued(call[p])
           ELSE Returned([call[p] EXCEPT !.ret = ""])]
    /\ UNCHANGED <<eoaCache, codeCache, functionCache, nonceCache, ownerCache,
                   errors, prev, started>>

NextExplorer ==
    \E p \in SeqProcs :
        \/ GetAddressInfoCall(p)
        \/ HaveInteractedAgainCall(p)
        \/ IsRecentlyInvolvedInTransferCall(p)
        \/ HasValidEntriesCall(p)
        \/ GetAddressesCall(p)
        \/ GetSourceCodeCall(p)
        \/ GetNumberOfLogsCall(p)
        \/ IsValueUniqueCall(p)
        \/ ExplorerThrow(p)
        \/ ExplorerAnswer(p)
        \/ HaveInteractedWithSameAddressCall(p)
        \/ LegThrow(p)
        \/ LegAnswer(p)
        \/ Join(p)
        \/ GetLabelCall(p)
        \/ GetLabelAnswer(p)
        \/ GetLabelThrow(p)
        \/ GetLabelWake(p)

SpecExplorer == Init /\ [][NextExplorer]_vars

----------------------------------------------------------------------------
(* getBlockExplorerKey and the URL builders *)

KeyLists == {"etherscanApiKeys", "optimisticEtherscanApiKeys",
             "bscscanApiKeys", "polygonscanApiKeys", "fantomscanApiKeys",
             "arbiscanApiKeys", "snowtraceApiKeys"}

\* chain IDs with a case of their own, and two that take the default
KeyChainIds == {10, 56, 137, 250, 42161, 43114, 1, 5}

\* the keys "<list>-1" .. "<list>-n"
KeysOf(list, n) == [i \in 1..n |-> list \o "-" \o ToString(i)]

\* configurations of the constructor's apiKeys: one list holds a keys, every
\* other list b keys
ApiKeyConfigs ==
    { [l \in KeyLists |-> KeysOf(l, IF l = own THEN a ELSE b)] :
          own \in KeyLists, a \in 0..MaxKeys, b \in 0..MaxKeys }

\* Math.random() in units of 1 / RandomUnits: 0 <= random < 1
Randoms == 0..(RandomUnits - 1)

\* list[Math.floor(Math.random() * list.length)], or the placeholder
PickKey(list, random) ==
    IF Len(list) > 0
    THEN list[((random * Len(list)) \div RandomUnits) + 1]
    ELSE "YourApiKeyToken"

\* a switch without the case 56
getBlockExplorerKeyNoBsc(apiKeys, chainId, random) ==
    CASE chainId = 10 -> PickKey(apiKeys["optimisticEtherscanApiKeys"], random)
      [] chainId = 137 -> PickKey(apiKeys["polygonscanApiKeys"], random)
      [] chainId = 250 -> PickKey(apiKeys["fantomscanApiKeys"], random)
      [] chainId = 42161 -> PickKey(apiKeys["arbiscanApiKeys"], random)
      [] chainId = 43114 -> PickKey(apiKeys["snowtraceApiKeys"], random)
      [] OTHER -> PickKey(apiKeys["etherscanApiKeys"], random)

getBlockExplorerKey(apiKeys, chainId, random) ==
    CASE chainId = 10 -> PickKey(apiKeys["optimisticEtherscanApiKeys"], random)
      [] chainId = 56 -> PickKey(apiKeys["bscscanApiKeys"], random)
      [] chainId = 137 -> PickKey(apiKeys["polygonscanApiKeys"], random)
      [] chainId = 250 -> PickKey(apiKeys["fantomscanApiKeys"], random)
      [] chainId = 42161 -> PickKey(apiKeys["arbiscanApiKeys"], random)
      [] chainId = 43114 -> PickKey(apiKeys["snowtraceApiKeys"], random)
      [] OTHER -> PickKey(apiKeys["etherscanApiKeys"], random)

UrlBuilders == {"getEtherscanAddressUrl", "getEtherscanAddressInternalTxsUrl",
                "getSourceCodeUrl", "getLogsUrl"}

\* a URL builder runs: it asks for a key and puts it into the URL.  `ret` is
\* the key of this URL, `resp` the key of the URL built before it for the
\* same chain by the same client.
BuildUrl(p) ==
    /\ call[p].pc = "done"
    /\ \E builder \in UrlBuilders, apiKeys \in ApiKeyConfigs,
          chainId \in KeyChainIds, random \in Randoms :
           /\ call[p].op \in UrlBuilders =>
                  apiKeys = call[p].args[2] /\ chainId = call[p].args[1]
           /\ call' = [call EXCEPT ![p] =
                  [NewCall(builder, "a1") EXCEPT
                      !.args = <<chainId, apiKeys>>,
                      !.resp = IF call[p].op \in UrlBuilders
                               THEN call[p].ret ELSE Undefined,
                      !.ret = getBlockExplorerKey(apiKeys, chainId, random)]]
    /\ UNCHANGED <<eoaCache, codeCache, functionCache, nonceCache, ownerCache,
                   errors, prev, started>>

NextKeys == \E p \in SeqProcs : BuildUrl(p)

SpecKeys == Init /\ [][NextKeys]_vars

----------------------------------------------------------------------------
(* Concurrent callers: handlers of several transactions share one client,
   and each await lets another invocation run *)

\* the invocations under way and finished belong to one group of operations
OneGroup ==
    \A p, q \in Procs :
        \/ call[p].op = "none"
        \/ call[q].op = "none"
        \/ Workload(call[p].op) = Workload(call[q].op)

NextConcurrent ==
    /\ \E p \in Procs :
        \/ \E a \in {"a1", "a2"} : GetCodeCall(p, a)
        \/ \E a \in {"a1", "a2"} : IsEoaCall(p, a)
        \/ \E c \in Codes : GetCodeResolve(p, c)
        \/ GetCodeReject(p)
        \/ GetCodeWake(p)
        \/ \E a \in Addresses : GetNonceCall(p, a)
        \/ \E n \in Nonces : GetNonceResolve(p, n)
        \/ GetNonceReject(p)
        \/ GetNonceWake(p)
        \/ \E b \in {"0xa9059cbb", "0x095ea7b3"} : GetSignatureCall(p, b)
        \/ \E r \in Bodies : GetSignatureResolve(p, r)
        \/ GetSignatureReject(p)
        \/ GetSignatureWake(p)
        \/ \E a \in {"a1", "a2"} : GetOwnerCall(p, a, 1)
        \/ \E o \in Owners : GetOwnerResolve(p, o)
        \/ GetOwnerFallback(p)
        \/ GetOwnerReject(p)
    /\ OneGroup'
    /\ started' <= ConcCalls

SpecConcurrent == Init /\ [][NextConcurrent]_vars

----------------------------------------------------------------------------
(* The whole client: provider operations and explorer operations.  As
   before, a behaviour exercises the operations of one group. *)

ExplorerOnly == \A p \in Procs : Workload(call[p].op) = "none"

NextClient ==
    \/ Next
    \/ ExplorerOnly /\ NextExplorer

SpecClient == Init /\ [][NextClient]_vars

\* Scheduling: a request that is out is settled by the remote side (answer or
\* error) and a timer that is set fires, so an invocation under way takes
\* its next step.
InFlight == \E p \in SeqProcs : call[p].pc # "done"

\* Termination does not depend on what the answers hold: the provider
\* operations are driven with one input each and the explorer with short
\* histories and few victims.
ShortAnswers ==
    \A p \in Procs : /\ Len(call[p].result) <= LiveHistory
                     /\ Len(call[p].legs) <= LiveVictims

NextLive ==
    \/ \E p \in SeqProcs :
        \/ GetCodeCall(p, "a1")
        \/ IsEoaCall(p, "a1")
        \/ \E c \in Codes : GetCodeResolve(p, c)
        \/ GetCodeReject(p)
        \/ GetCodeWake(p)
        \/ GetStorageSlotCall(p, "a1", 0, 1)
        \/ GetStorageSlotResolve(p, "0x00")
        \/ GetStorageSlotReject(p)
        \/ GetStorageSlotWake(p)
        \/ GetNonceCall(p, "a1")
        \/ GetNonceResolve(p, 7)
        \/ GetNonceReject(p)
        \/ GetNonceWake(p)
        \/ \E b \in Selectors : GetSignatureCall(p, b)
        \/ \E r \in Bodies : GetSignatureResolve(p, r)
        \/ GetSignatureReject(p)
        \/ GetSignatureWake(p)
        \/ GetOwnerCall(p, "a1", 1)
        \/ GetOwnerResolve(p, "o1")
        \/ GetOwnerFallback(p)
        \/ GetOwnerReject(p)
    \/ ExplorerOnly /\ NextExplorer /\ ShortAnswers'

SpecLive == Init /\ [][NextLive]_vars /\ WF_vars(InFlight /\ NextLive)

----------------------------------------------------------------------------
(* The large-position bot (Alpaca Finance): handleTransaction over the Work
   events of a transaction *)

\* A uint256 amount.  It is `units` when `over` is false and 2^53 + units
\* when it is true: 2^53 is the first integer whose successor a double
\* cannot hold.
Amount(over, units) == [over |-> over, units |-> units]

Amounts == { Amount(o, u) : o \in BOOLEAN, u \in 0..MaxUnits }

\* a > b on bigints
GreaterThan(a, b) ==
    IF a.over = b.over THEN a.units > b.units ELSE a.over

\* parseInt(x) of a BigNumber: its decimal digits read as a double.  The
\* integers below 2^53 are doubles; from 2^53 to 2^54 the doubles are the
\* even integers, and an odd one goes to the neighbour with the even
\* mantissa (a multiple of 4).
parseInt(a) ==
    IF ~a.over
    THEN a
    ELSE Amount(TRUE, CASE a.units % 2 = 0 -> a.units
                        [] a.units % 4 = 1 -> a.units - 1
                        [] OTHER -> a.units + 1)

\* the truth value of a bigint in a condition: 0n is false
Truthy(a) == a # Amount(FALSE, 0)

WorkAddresses == {"v1", "v2"}

\* vaultsMap: no vault, or the vault v1 with a threshold
VaultsMaps ==
    {<< >>} \cup { [a \in {"v1"} |-> t] :
                     t \in {Amount(FALSE, 0), Amount(FALSE, 2), Amount(TRUE, 2)} }

\* what filterLog returns for the Work ABI: the emitting address and the
\* arguments id and loan
WorkEvents ==
    { [address |-> a, id |-> i, loan |-> l] :
          a \in WorkAddresses,
          i \in {Amount(FALSE, 1), Amount(TRUE, 1)},
          l \in Amounts }

createFinding(posId, loanAmount, vaultAddress) ==
    [alertId |-> "ALPACA-1", positionId |-> posId,
     loanAmount |-> loanAmount, vault |-> vaultAddress]

\* vaultThreshold && BigInt(parseInt(loan)) > vaultThreshold
ExceedsThreshold(vaultsMap, e) ==
    /\ e.address \in DOMAIN vaultsMap
    /\ Truthy(vaultsMap[e.address])
    /\ GreaterThan(parseInt(e.loan), vaultsMap[e.address])

\* the loop over workEvents, from index i on
RECURSIVE WorkLoop(_, _, _, _)
WorkLoop(vaultsMap, workEvents, i, findings) ==
    IF i > Len(workEvents)
    THEN findings
    ELSE WorkLoop(vaultsMap, workEvents, i + 1,
             IF ExceedsThreshold(vaultsMap, workEvents[i])
             THEN Append(findings,
                      createFinding(parseInt(workEvents[i].id),
                                    parseInt(workEvents[i].loan),
                                    workEvents[i].address))
             ELSE findings)

\* the handler made by provideHandleTransaction(vaultsMap) runs on a
\* transaction; `args` holds the map of the closure and the Work events,
\* `result` the findings returned
LargePositionHandleTransaction(p) ==
    /\ call[p].pc = "done"
    /\ \E vaultsMap \in VaultsMaps,
          workEvents \in SeqsUpTo(WorkEvents, MaxWorkEvents) :
           /\ call[p].op = "Large-Position-Alert" =>
                  vaultsMap = call[p].args[1]
           /\ call' = [call EXCEPT ![p] =
                  [NewCall("Large-Position-Alert", "a1") EXCEPT
                      !.args = <<vaultsMap, workEvents>>,
                      !.result = WorkLoop(vaultsMap, workEvents, 1, << >>)]]
    /\ UNCHANGED <<eoaCache, codeCache, functionCache, nonceCache, ownerCache,
                   errors, prev, started>>

NextLargePosition == \E p \in SeqProcs : LargePositionHandleTransaction(p)

SpecLargePosition == Init /\ [][NextLargePosition]_vars

----------------------------------------------------------------------------
(* The large-position bot with its default configuration.  Amounts are
   counted in whole tokens (10^18): the thresholds of VAULTS_MAP and the
   loans drawn here are whole tokens, and on those the reading of the loan
   as a double keeps the order. *)

\* the entries of VAULTS_MAP as written, addresses in lower case
VaultEntries ==
    <<<<"0x7c9e73d4c71dae564d41f78d56439bb4ba87592f", Amount(FALSE, 100000)>>,
      <<"0xbff4a34a4644a113e8200d7f1d79b3555f723afe", Amount(FALSE, 30)>>,
      <<"0x08fc9ba2cac74742177e0afc3dc8aed6961c24e7", Amount(FALSE, 3)>>,
      <<"0x08fc9ba2cac74742177e0afc3dc8aed6961c24e7", Amount(FALSE, 100000)>>,
      <<"0xf1be8ecc990cbcb90e166b71e368299f0116d421", Amount(FALSE, 200000)>>,
      <<"0x3282d2a151ca00bfe7ed17aa16e42880248cd3cd", Amount(FALSE, 100000)>>>>

\* new Map(entries): a key listed twice keeps the value listed last
MapOf(entries) ==
    [a \in { entries[i][1] : i \in 1..Len(entries) } |->
        LET last == CHOOSE i \in 1..Len(entries) :
                        /\ entries[i][1] = a
                        /\ \A j \in (i + 1)..Len(entries) : entries[j][1] # a
        IN entries[last][2]]

VAULTS_MAP == MapOf(VaultEntries)

\* the exported handler, provideHandleTransaction(VAULTS_MAP), runs on a
\* transaction whose Work events come from the listed vaults or from
\* another address
DefaultHandleTransaction(p) ==
    /\ call[p].pc = "done"
    /\ \E workEvents \in SeqsUpTo(
              { [address |-> a, id |-> Amount(FALSE, 1),
                 loan |-> Amount(FALSE, l)] :
                    a \in DOMAIN VAULTS_MAP \cup {"0x00"},
                    l \in {3, 4, 31, 100001, 200001} }, MaxWorkEvents) :
           call' = [call EXCEPT ![p] =
               [NewCall("Large-Position-Alert default", "a1") EXCEPT
                   !.args = <<VAULTS_MAP, workEvents>>,
                   !.result = WorkLoop(VAULTS_MAP, workEvents, 1, << >>)]]
    /\ UNCHANGED <<eoaCache, codeCache, functionCache, nonceCache, ownerCache,
                   errors, prev, started>>

NextDefaultLargePosition == \E p \in SeqProcs : DefaultHandleTransaction(p)

SpecDefaultLargePosition == Init /\ [][NextDefaultLargePosition]_vars

----------------------------------------------------------------------------
(* The lottery-address bot (PancakeSwap): handleTransaction over the
   NewOperatorAndTreasuryAndInjectorAddresses events of a transaction *)

NewOperatorAndTreasuryAndInjectorAddresses ==
    "event NewOperatorAndTreasuryAndInjectorAddresses"

PANCAKE_SWAP_LOTTERY_ADDRESS == "PANCAKE_SWAP_LOTTERY_ADDRESS"

\* what the mocked filterLog returns: events with the arguments from,
\* operator, treasury and injector
LotteryEvents ==
    { [from |-> f, operator |-> o, treasury |-> t, injector |-> i] :
          f \in {"0x0abc", "0x0123"}, o \in {"0x0123", "0x0def"},
          t \in {"0x0def"}, i \in {"0x0456", "0x0abc", "0x0def"} }

\* a handler that copies every argument of the event
LotteryMetadataAllArgs(e) == e

\* the metadata of a finding: the three addresses named by the event
LotteryMetadata(e) ==
    [operator |-> e.operator, treasury |-> e.treasury,
     injector |-> e.injector]

LotteryFinding(e) ==
    [name |-> "New Operator And Treasury And Injector Addresses",
     description |-> "New Operator And Treasury And Injector Addresses",
     alertId |-> "PCSLottery-2", severity |-> "Info", type |-> "Info",
     metadata |-> LotteryMetadata(e)]

\* handleTransaction: one filterLog call, one finding per event returned.
\* `legs` holds the filterLog calls made, `args` the events filterLog
\* returned, `result` the findings.
LotteryHandleTransaction(p) ==
    /\ call[p].pc = "done"
    /\ \E events \in SeqsUpTo(LotteryEvents, MaxLotteryEvents) :
           call' = [call EXCEPT ![p] =
               [NewCall("Lottery", "a1") EXCEPT
                   !.legs = <<<<NewOperatorAndTreasuryAndInjectorAddresses,
                                PANCAKE_SWAP_LOTTERY_ADDRESS>>>>,
                   !.args = events,
                   !.result = [i \in 1..Len(events) |->
                                   LotteryFinding(events[i])]]]
    /\ UNCHANGED <<eoaCache, codeCache, functionCache, nonceCache, ownerCache,
                   errors, prev, started>>

NextLottery == \E p \in SeqProcs : LotteryHandleTransaction(p)

SpecLottery == Init /\ [][NextLottery]_vars

----------------------------------------------------------------------------
(* The private-key-compromise bot: handleTransaction over a sequence of
   transactions.  The bot keeps, for every receiver, the victims that sent
   funds to it, and the receivers it has alerted on. *)

senders == { "s" \o ToString(i) : i \in 1..MaxSenders }

receivers == {"r1", "r2"}

\* mockDataFetcher.isEoa: true for the receiver the test sets it for
EoaReceivers == {"r1"}

\* the token of the ERC20 transfers, createAddress("0x99")
Token == "0x99"

\* A transaction of the tests: a native transfer (setTo, setValue), an
\* ERC20 transfer trace to the receiver after which the sender's balance of
\* the token is "0" (setTokenBalance) or is not, or no transfer at all.
\* Every sender sends to r1, in any order; token transfers come from s3 and
\* s4; r2 receives native transfers from s1 .. s4.
Transactions ==
    { [from |-> f, to |-> "r1", kind |-> "native"] : f \in senders }
    \cup { [from |-> f, to |-> "r1", kind |-> k] :
             f \in {"s3", "s4"}, k \in {"token", "tokenKept"} }
    \cup { [from |-> f, to |-> t, kind |-> "native"] :
             f \in {"s1", "s2", "s3", "s4"}, t \in {"r2"} }
    \cup { [from |-> "s1", to |-> "r1", kind |-> "none"] }

\* assets.filter((item, pos) => assets.indexOf(item) == pos)
UniqueAssets(assets) ==
    LET Kept(i) == \A j \in 1..(i - 1) : assets[j] # assets[i]
        RECURSIVE From(_)
        From(i) == IF i > Len(assets) THEN << >>
                   ELSE IF Kept(i) THEN <<assets[i]>> \o From(i + 1)
                   ELSE From(i + 1)
    IN From(1)

PkcCreateFinding(from, to, assets) ==
    [name |-> "Possible private key compromise", alertId |-> "PKC-1",
     metadata |-> [attacker |-> to, victims |-> from,
                   transferredAssets |-> UniqueAssets(assets)]]

\* the transfer of a transaction counts: a native transfer, or a token
\* transfer that empties the sender's balance
IsTransfer(tx) == tx.kind \in {"native", "token"}

TransferredAsset(tx) == IF tx.kind = "native" THEN "ETH" ELSE Token

\* the records kept for a receiver
RecordsOf(transferObj, to) ==
    IF to \in DOMAIN transferObj THEN transferObj[to] ELSE << >>

\* the victim is added to the receiver's records unless it is there
updateRecord(transferObj, tx) ==
    LET records == RecordsOf(transferObj, tx.to)
    IN IF \E i \in 1..Len(records) : records[i].victimAddress = tx.from
       THEN transferObj
       ELSE [t \in DOMAIN transferObj \cup {tx.to} |->
                IF t = tx.to
                THEN Append(records,
                         [victimAddress |-> tx.from,
                          transferredAsset |-> TransferredAsset(tx)])
                ELSE transferObj[t]]

\* the number of records kept, over all receivers
RECURSIVE SumLen(_, _)
SumLen(transferObj, S) ==
    IF S = {} THEN 0
    ELSE LET t == CHOOSE x \in S : TRUE
         IN Len(transferObj[t]) + SumLen(transferObj, S \ {t})

TotalRecords(transferObj) == SumLen(transferObj, DOMAIN transferObj)

\* an alert at three victims
ReachedThresholdAtThree(records) == Len(records) >= 3

\* more than 3 victims have sent funds to the receiver
ReachedThreshold(records) == Len(records) > 3

\* an alert that is not remembered
RememberAlertNever(alertedAddresses, to) == alertedAddresses

RememberAlert(alertedAddresses, to) == alertedAddresses \cup {to}

\* handleTransaction: the transfer is recorded; a receiver that is an EOA,
\* has reached the threshold and was not alerted on yet gives one finding
\* and is remembered
PkcHandleTransaction(p) ==
    /\ call[p].pc = "done"
    /\ \E tx \in Transactions :
        LET transferObj == IF IsTransfer(tx)
                           THEN updateRecord(call[p].transferObj, tx)
                           ELSE call[p].transferObj
            records == RecordsOf(transferObj, tx.to)
            alert == /\ IsTransfer(tx)
                     /\ ReachedThreshold(records)
                     /\ tx.to \in EoaReceivers
                     /\ tx.to \notin call[p].alertedAddresses
        IN /\ TotalRecords(transferObj) <= MaxTransfers
           /\ call' = [call EXCEPT ![p] =
                 [NewCall("private-key-compromise", "a1") EXCEPT
                     !.args = <<tx>>,
                     !.transferObj = transferObj,
                     !.alertedAddresses =
                         IF alert
                         THEN RememberAlert(call[p].alertedAddresses, tx.to)
                         ELSE call[p].alertedAddresses,
                     !.result =
                         IF alert
                         THEN <<PkcCreateFinding(
                                   [i \in 1..Len(records) |->
                                        records[i].victimAddress],
                                   tx.to,
                                   [i \in 1..Len(records) |->
                                        records[i].transferredAsset])>>
                         ELSE << >>]]
    /\ UNCHANGED <<eoaCache, codeCache, functionCache, nonceCache, ownerCache,
                   errors, prev, started>>

NextPkc == \E p \in SeqProcs : PkcHandleTransaction(p)

SpecPkc == Init /\ [][NextPkc]_vars

----------------------------------------------------------------------------
(* The Auto-CAKE admin bot (PancakeSwap): handleTransaction over the
   function calls of a transaction *)

\* Argument values: a BigNumber, a boolean or an address
NumberValue(n) == [t |-> "BigNumber", n |-> n, b |-> FALSE, s |-> ""]
BooleanValue(b) == [t |-> "boolean", n |-> 0, b |-> b, s |-> ""]
AddressValue(s) == [t |-> "string", n |-> 0, b |-> FALSE, s |-> s]

\* value.toString()
ValueToString(v) ==
    CASE v.t = "BigNumber" -> ToString(v.n)
      [] v.t = "boolean" -> IF v.b THEN "true" ELSE "false"
      [] v.t = "string" -> v.s

\* Object.keys(functionCall.args): the decoded arguments hold every value
\* under its index and, when the parameter is named, under its name as
\* well; the indices come first, then the names in parameter order.
\* `params` is the list of [name, value], name "" for an unnamed parameter.
ObjectKeys(params) ==
    LET named == SelectSeq(params, LAMBDA q : q.name # "")
    IN [i \in 1..Len(params) |-> ToString(i - 1)]
       \o [i \in 1..Len(named) |-> named[i].name]

\* functionCall.args[key]
ArgOf(params, key) ==
    LET byName == { i \in 1..Len(params) : params[i].name = key }
        byIndex == { i \in 1..Len(params) : ToString(i - 1) = key }
    IN params[CHOOSE i \in byName \cup byIndex : TRUE].value

\* what filterFunction returns: calls without parameter, with one named
\* parameter, with two named parameters, and with an unnamed parameter
\* before a named one
FunctionCalls ==
    { [name |-> n, params |-> << >>] : n \in {"pause", "unpause"} }
    \cup { [name |-> "setAdmin",
            params |-> <<[name |-> "_admin", value |-> AddressValue(a)]>>] :
             a \in {"0x0abc", "0x0def"} }
    \cup { [name |-> "setPerformanceFee",
            params |-> <<[name |-> "_performanceFee",
                          value |-> NumberValue(n)]>>] : n \in {0, 200} }
    \cup { [name |-> "inCaseTokensGetStuck",
            params |-> <<[name |-> "_token", value |-> AddressValue(a)],
                         [name |-> "_all", value |-> BooleanValue(b)]>>] :
             a \in {"0x0abc"}, b \in BOOLEAN }
    \cup { [name |-> "setFees",
            params |-> <<[name |-> "", value |-> NumberValue(n)],
                         [name |-> "_callFee", value |-> NumberValue(m)]>>] :
             n \in {1, 2}, m \in {25} }
    \cup { [name |-> "setLimits",
            params |-> <<[name |-> "", value |-> NumberValue(n)],
                         [name |-> "", value |-> BooleanValue(TRUE)],
                         [name |-> "_max", value |-> NumberValue(9)]>>] :
             n \in {1, 2} }

\* a slice from the middle rounded up
SecondHalfCeil(allKeys) ==
    SubSeq(allKeys, ((Len(allKeys) + 1) \div 2) + 1, Len(allKeys))

\* allKeys.slice(allKeys.length / 2): slice truncates its argument
SecondHalf(allKeys) ==
    SubSeq(allKeys, (Len(allKeys) \div 2) + 1, Len(allKeys))

\* the body of functionCalls.forEach: the metadata object and the finding,
\* held as the arguments given to createFunctionFinding
FunctionCallFinding(functionCall) ==
    LET keys == SecondHalf(ObjectKeys(functionCall.params))
        metadata == [key \in { keys[i] : i \in 1..Len(keys) } |->
                        ValueToString(ArgOf(functionCall.params, key))]
    IN <<functionCall.name, functionCall.name, metadata>>

\* the handler runs on a transaction; `args` holds the function calls that
\* filterFunction returned, `result` the findings
AutoCakeHandleTransaction(p) ==
    /\ call[p].pc = "done"
    /\ \E functionCalls \in SeqsUpTo(FunctionCalls, MaxFunctionCalls) :
           call' = [call EXCEPT ![p] =
               [NewCall("Auto-CAKE-Admin-Operations", "a1") EXCEPT
                   !.args = functionCalls,
                   !.result = [i \in 1..Len(functionCalls) |->
                                   FunctionCallFinding(functionCalls[i])]]]
    /\ UNCHANGED <<eoaCache, codeCache, functionCache, nonceCache, ownerCache,
                   errors, prev, started>>

NextAutoCake == \E p \in SeqProcs : AutoCakeHandleTransaction(p)

SpecAutoCake == Init /\ [][NextAutoCake]_vars

----------------------------------------------------------------------------
(* Vocabulary of the properties *)

\* the invocation of process p has returned (or thrown)
Done(p, op) == call[p].pc = "done" /\ call[p].op = op

\* ... and it did not find its key in the cache of the operation
Missed(p, op) == Done(p, op) /\ ~call[p].hit

\* error records appended since the invocation began
ErrorsSince(c) == SubSeq(errors, c.errBase + 1, Len(errors))

LRUVals(c) == { c[i].v : i \in 1..Len(c) }

\* the invocation that just returned repeats the operation and key of the
\* one before it
Repeated(p, op) ==
    /\ Done(p, op)
    /\ prev.op = op
    /\ prev.key = call[p].key

----------------------------------------------------------------------------
(* Claims *)

\* C1: every entry of the five caches is the value of a successful remote
\* response: a bytecode, a boolean derived from one, a nonce, a found
\* signature body, an owner answered by the contract; a failed lookup
\* leaves no entry.
C1_CachesHoldOnlySuccesses ==
    /\ LRUVals(codeCache) \subseteq Codes
    /\ LRUVals(eoaCache) \subseteq BOOLEAN
    /\ LRUVals(nonceCache) \subseteq Nonces
    /\ LRUVals(functionCache) \subseteq Bodies
    /\ LRUVals(ownerCache) \subseteq Owners

\* C2: a getCode that misses the cache issues at most 3 provider calls;
\* after 3 failures it returns undefined and has appended exactly one error
\* record; after a success at attempt k it returns that answer, has issued
\* exactly k calls and has appended nothing.
C2_GetCodeRetry ==
    \A p \in Procs :
        (call[p].op = "getCode" /\ ~call[p].hit) =>
            /\ call[p].calls <= 3
            /\ call[p].pc = "done" =>
                  IF ~call[p].ok
                  THEN /\ call[p].tries = 3
                       /\ call[p].calls = 3
                       /\ call[p].ret = Undefined
                       /\ ErrorsSince(call[p]) = <<"fetcher.getCode">>
                  ELSE /\ call[p].tries < 3
                       /\ call[p].calls = call[p].tries + 1
                       /\ call[p].ret = call[p].resp
                       /\ ErrorsSince(call[p]) = << >>

C2_Witness ==
    \E p \in Procs :
        /\ Missed(p, "getCode")
        /\ call[p].tries = 3
        /\ call[p].ret = Undefined

\* C3: a getNonce that misses the cache returns the sentinel 100000 and
\* appends exactly one error record when 3 attempts fail, and leaves the
\* address out of nonceCache, so that a getNonce repeated for it calls the
\* provider again; when an attempt succeeds the provider's value is
\* returned and cached under the address.
C3_GetNonceFallback ==
    \A p \in Procs :
        /\ Missed(p, "getNonce") =>
              IF ~call[p].ok
              THEN /\ call[p].tries = 3
                   /\ call[p].nval = 100000
                   /\ ErrorsSince(call[p]) = <<"fetcher.getNonce">>
                   /\ ~LRUHas(nonceCache, call[p].key)
              ELSE /\ call[p].tries < 3
                   /\ call[p].nval = call[p].resp
                   /\ ErrorsSince(call[p]) = << >>
                   /\ LRUHas(nonceCache, call[p].key)
                   /\ LRUPeek(nonceCache, call[p].key) = call[p].resp
        /\ (Repeated(p, "getNonce") /\ ~prev.hit /\ ~prev.ok) =>
              call[p].calls >= 1

C3_Witness ==
    \E p \in Procs :
        /\ Repeated(p, "getNonce")
        /\ ~prev.hit
        /\ prev.tries = 3
        /\ prev.nval = 100000
        /\ call[p].resp \in Nonces

\* C4: getStorageSlot returns undefined and appends exactly one error
\* record when 3 consecutive attempts fail; otherwise it returns the first
\* successful answer and appends nothing.
C4_GetStorageSlotRetry ==
    \A p \in Procs :
        call[p].op = "getStorageSlot" =>
            /\ call[p].calls <= 3
            /\ call[p].pc = "done" =>
                  IF ~call[p].ok
                  THEN /\ call[p].tries = 3
                       /\ call[p].ret = Undefined
                       /\ ErrorsSince(call[p]) = <<"fetcher.getStorageSlot">>
                  ELSE /\ call[p].tries < 3
                       /\ call[p].calls = call[p].tries + 1
                       /\ call[p].ret = call[p].resp
                       /\ ErrorsSince(call[p]) = << >>

C4_Witness ==
    \E p \in Procs :
        /\ Done(p, "getStorageSlot")
        /\ call[p].tries = 3
        /\ call[p].ret = Undefined
        /\ Len(errors) = call[p].errBase + 1

\* C5: getCode caches an answer iff it is non-empty and not "0x": codeCache
\* never holds "0x"; a getCode that finds its address cached returns the
\* cached bytecode without a provider call; a getCode repeated after one
\* that returned bytecode returns the same bytecode without a provider
\* call, and one repeated after "0x" calls the provider again.
C5_GetCodeCaching ==
    /\ \A i \in 1..Len(codeCache) : codeCache[i].v \notin {"0x", "", Undefined}
    /\ \A p \in Procs :
        /\ Missed(p, "getCode") =>
              /\ call[p].calls >= 1
              /\ LRUHas(codeCache, call[p].key)
                     <=> call[p].ret \notin {"0x", Undefined}
              /\ LRUHas(codeCache, call[p].key)
                     => LRUPeek(codeCache, call[p].key) = call[p].ret
        /\ (Done(p, "getCode") /\ call[p].hit) =>
              /\ call[p].calls = 0
              /\ call[p].ret = LRUPeek(codeCache, call[p].key)
        /\ Repeated(p, "getCode") =>
              IF prev.ret \in {"0x", Undefined}
              THEN call[p].calls >= 1
              ELSE call[p].calls = 0 /\ call[p].ret = prev.ret

C5_Witness ==
    \E p \in Procs :
        /\ Repeated(p, "getCode")
        /\ prev.ret = "0x6080"
        /\ prev.calls >= 1
        /\ call[p].hit

\* C6: an isEoa that misses eoaCache returns true iff the code obtained is
\* exactly "0x", false if it is other bytecode, undefined if no code was
\* obtained; an undefined outcome writes nothing to eoaCache.
C6_IsEoaResult ==
    \A p \in Procs :
        Missed(p, "isEoa") =>
            IF call[p].code = Undefined
            THEN /\ call[p].ret = Undefined
                 /\ call[p].tries = 3
                 /\ ~LRUHas(eoaCache, call[p].key)
            ELSE /\ call[p].ret = "boolean"
                 /\ call[p].bval = (call[p].code = "0x")
                 /\ (call[p].calls = 0 \/ call[p].code = call[p].resp)
                 /\ LRUHas(eoaCache, call[p].key)
                 /\ LRUPeek(eoaCache, call[p].key) = call[p].bval

C6_Witness ==
    \E p \in Procs :
        /\ Missed(p, "isEoa")
        /\ call[p].tries = 3
        /\ call[p].ret = Undefined

\* C7: whenever non-empty bytecode has been fetched for an address (it sits
\* in codeCache), isEoa for that address returns false, whatever getCode and
\* isEoa calls were made for it before.
C7_IsEoaFalseForFetchedCode ==
    \A p \in Procs :
        (Done(p, "isEoa") /\ LRUHas(codeCache, call[p].key)) =>
            /\ call[p].ret = "boolean"
            /\ call[p].bval = FALSE

CachedOps == {"getCode", "isEoa", "getNonce", "getSignature", "getOwner"}

\* C8 as stated: a cached operation called twice in a row with the same key
\* issues exactly one remote call over the two invocations.
C8_ExactlyOneRemoteCall ==
    \A p \in Procs :
        \A op \in CachedOps :
            Repeated(p, op) => prev.calls + call[p].calls = 1

\* the invocation returned a result that its operation writes to its cache
Cacheable(c) ==
    CASE c.op = "getCode" -> c.ret \notin {Undefined, "0x"}
      [] c.op = "isEoa" -> c.ret = "boolean"
      [] c.op = "getNonce" -> c.hit \/ c.ok
      [] c.op = "getSignature" -> c.ret = "string"
      [] c.op = "getOwner" -> TRUE
      [] OTHER -> FALSE

SameResult(c, d) ==
    /\ c.ret = d.ret
    /\ c.bval = d.bval
    /\ c.nval = d.nval
    /\ c.body = d.body
    /\ c.thrown = d.thrown

\* C8 (amended): a cached operation called twice in a row with the same
\* key issues no remote call in the second invocation and returns the first
\* one's result when the first returned a result the operation caches; the
\* first invocation issues at most 3 remote calls; when the first returned
\* a result that is not cached, the second issues at least one remote call.
C8_RepeatedCallHitsCache ==
    \A p \in Procs :
        \A op \in CachedOps :
            Repeated(p, op) =>
                /\ prev.calls <= 3
                /\ IF Cacheable(prev)
                   THEN /\ call[p].calls = 0
                        /\ call[p].hit
                        /\ SameResult(call[p], prev)
                   ELSE call[p].calls >= 1

C8_Witness ==
    \E p \in Procs :
        /\ Repeated(p, "getSignature")
        /\ prev.calls = 2
        /\ prev.ret = "string"
        /\ call[p].hit
        /\ call[p].body = prev.body

LastKey(c) == c[Len(c)].k

FrontSeq(c) == SubSeq(c, 1, Len(c) - 1)

\* one step of a cache from c to d: the size stays within max, and if the
\* cache changed, the most recently used entry is the one of the key used,
\* the other entries keep their order, and an entry is dropped only when a
\* new key arrives at a full cache, the dropped one being the least
\* recently used
LRUStepOK(c, d, max) ==
    /\ Len(d) <= max
    /\ d # c =>
          /\ Len(d) > 0
          /\ IF LastKey(d) \in LRUKeys(c)
             THEN FrontSeq(d) = SelectSeq(c, LAMBDA e : e.k # LastKey(d))
             ELSE IF Len(c) = max
             THEN FrontSeq(d) = Tail(c)
             ELSE FrontSeq(d) = c

\* the invocation of p returned in this step
ReturnsNow(p) == call'[p] # call[p] /\ call'[p].pc = "done"

\* a read of a cached key makes it the most recently used key
HitIsUse(p) ==
    ReturnsNow(p) =>
        /\ call'[p].hit =>
              /\ call'[p].op = "getCode" => LastKey(codeCache') = call'[p].key
              /\ call'[p].op = "isEoa" => LastKey(eoaCache') = call'[p].key
              /\ call'[p].op = "getNonce" =>
                     LastKey(nonceCache') = call'[p].key
              /\ call'[p].op = "getSignature" =>
                     LastKey(functionCache') = call'[p].key
              /\ call'[p].op = "getOwner" =>
                     LastKey(ownerCache') = call'[p].key
        /\ (call'[p].op = "isEoa" /\ ~call'[p].hit /\ call'[p].calls = 0) =>
              LastKey(codeCache') = call'[p].key

C9_Step ==
    /\ LRUStepOK(eoaCache, eoaCache', eoaCacheMax)
    /\ LRUStepOK(codeCache, codeCache', codeCacheMax)
    /\ LRUStepOK(nonceCache, nonceCache', nonceCacheMax)
    /\ LRUStepOK(functionCache, functionCache', functionCacheMax)
    /\ LRUStepOK(ownerCache, ownerCache', ownerCacheMax)
    /\ \A p \in Procs : HitIsUse(p)

\* C9: in every step the size of each of the five caches stays within its
\* capacity, and a new key inserted into a full cache evicts the least
\* recently used entry, a cache hit read counting as a use.
C9_LRUCapacity == [][C9_Step]_vars

\* a hit refreshed a key, and the insertion that followed evicted another
C9_Witness ==
    \E p \in Procs :
        /\ Missed(p, "getCode")
        /\ call[p].evicted # {}
        /\ prev.op = "getCode"
        /\ prev.hit
        /\ LRUHas(codeCache, prev.key)
        /\ Len(codeCache) = codeCacheMax

\* C10: a getSignature that misses the cache fetches at most 3 times; when
\* all 3 attempts fail it throws instead of returning a value, writes
\* nothing to functionCache and appends nothing to the error collector.
C10_GetSignatureThrows ==
    \A p \in Procs :
        (call[p].op = "getSignature" /\ ~call[p].hit) =>
            /\ call[p].calls <= 3
            /\ ErrorsSince(call[p]) = << >>
            /\ call[p].pc = "done" =>
                  /\ call[p].thrown <=> (call[p].tries = 3)
                  /\ call[p].thrown <=> ~call[p].ok
                  /\ call[p].thrown =>
                        /\ call[p].calls = 3
                        /\ call[p].ret = Undefined
                        /\ call[p].body = << >>
                        /\ ~LRUHas(functionCache, call[p].key)

C10_Witness ==
    \E p \in Procs :
        /\ Missed(p, "getSignature")
        /\ call[p].thrown
        /\ call[p].calls = 3
        /\ Len(functionCache) > 0

\* C11: when the signature database answers with an empty body or with a
\* body beginning with "404", getSignature returns undefined without
\* another fetch and without caching, so that a getSignature repeated for
\* the same selector fetches again; any other body is returned and cached
\* under the selector.
C11_UnknownSelector ==
    \A p \in Procs :
        /\ (Missed(p, "getSignature") /\ call[p].ok) =>
              /\ call[p].calls = call[p].tries + 1
              /\ IF \/ call[p].resp = << >>
                    \/ /\ Len(call[p].resp) >= 3
                       /\ call[p].resp[1] = "4"
                       /\ call[p].resp[2] = "0"
                       /\ call[p].resp[3] = "4"
                 THEN /\ call[p].ret = Undefined
                      /\ ~call[p].thrown
                      /\ ~LRUHas(functionCache, call[p].key)
                 ELSE /\ call[p].ret = "string"
                      /\ call[p].body = call[p].resp
                      /\ LRUHas(functionCache, call[p].key)
                      /\ LRUPeek(functionCache, call[p].key) = call[p].resp
        /\ (Repeated(p, "getSignature") /\ prev.ok /\ prev.ret = Undefined)
              => call[p].calls >= 1

C11_Witness ==
    \E p \in Procs :
        /\ Repeated(p, "getSignature")
        /\ prev.ok
        /\ Len(prev.resp) > 3
        /\ prev.resp[1] = "4" /\ prev.resp[2] = "0" /\ prev.resp[3] = "4"
        /\ prev.ret = Undefined
        /\ call[p].ok
        /\ call[p].ret = "string"

\* C19: getOwner performs no retries: owner() is called once, getOwner()
\* once and only after owner() failed, and "" is returned only after both
\* failed; the result is cached under the key of (address, block), so that
\* a result cached for one block is not returned for the same address at
\* another block.
C19_GetOwnerFallback ==
    \A p \in Procs :
        call[p].op = "getOwner" =>
            /\ call[p].calls <= 2
            /\ call[p].key = OwnerKey(call[p].args[1], call[p].args[2])
            /\ Missed(p, "getOwner") =>
                  /\ IF call[p].ok
                     THEN /\ call[p].calls = call[p].tries + 1
                          /\ call[p].ret = call[p].resp
                     ELSE /\ call[p].tries = 2
                          /\ call[p].calls = 2
                          /\ call[p].ret = ""
                  /\ LRUHas(ownerCache, call[p].key)
                  /\ LRUPeek(ownerCache, call[p].key) = call[p].ret
            /\ (Done(p, "getOwner") /\ call[p].hit /\ started = 2) =>
                  /\ prev.op = "getOwner"
                  /\ prev.args = call[p].args
                  /\ prev.ret = call[p].ret

C19_Witness ==
    \E p \in Procs :
        /\ Missed(p, "getOwner")
        /\ prev.op = "getOwner"
        /\ prev.args[1] = call[p].args[1]
        /\ prev.args[2] # call[p].args[2]
        /\ prev.ret \in Owners
        /\ ~call[p].ok
        /\ call[p].ret = ""

----------------------------------------------------------------------------
(* Claims on the block-explorer operations *)

\* the request that follows a failed attempt of a retry loop is issued now
\* (getOwner has no loop: its second request is another contract method)
NextAttempt(p) ==
    /\ call[p].calls >= 1
    /\ call[p].op # "getOwner"
    /\ call'[p].op = call[p].op
    /\ call'[p].calls = call[p].calls + 1

\* C12: every remote call of the client makes up to 3 attempts and waits the
\* fixed 1-second delay between a failed attempt and the next attempt: the
\* next attempt is only ever issued by an invocation that sits in its delay.
C12_DelayBetweenAttempts ==
    [][\A p \in Procs :
          NextAttempt(p) => call[p].pc = "sleep" /\ call'[p].calls <= 3]_vars

SoftPrefix(message) ==
    \/ StartsWith(message, <<"N", "O", "T", "O", "K">>)
    \/ StartsWith(message, <<"Q", "u", "e", "r", "y", " ", "T", "i", "m", "e", "o", "u", "t">>)
    \/ StartsWith(message, <<"N", "o", " ", "t", "r", "a", "n", "s", "a", "c", "t", "i", "o", "n", "s", " ", "f", "o", "u", "n", "d">>)

\* the invocation of p received an answer (a message) in this step
Answered(p) ==
    /\ call[p].pc = "await"
    /\ call[p].op \in ExplorerOps
    /\ call'[p].soft = call[p].soft + 1 \/ (call'[p].ok /\ ~call[p].ok)
                                        \/ call'[p].thrown

C13_Step ==
    \A p \in Procs :
        LET c == call[p]
            d == call'[p]
        IN  /\ d.op \in ExplorerOps => d.calls <= 3 /\ d.tries <= 3
            /\ (Answered(p) /\ SoftPrefix(d.msg)) =>
                  \* handled exactly like a thrown error
                  /\ [d EXCEPT !.msg = c.msg, !.soft = c.soft] =
                         FailedAttempt(c)
                  /\ d.tries = c.tries + 1
                  /\ IF c.tries + 1 < 3
                     THEN d.pc = "await" /\ d.calls = c.calls + 1
                     ELSE d.pc = "done" /\ d.calls = c.calls
            /\ (Answered(p) /\ ~SoftPrefix(d.msg)) =>
                  \* the loop ends on this answer, which is evaluated
                  /\ d.tries = IF d.stage = c.stage THEN c.tries ELSE 0
                  /\ d.pc = "done" \/ (d.stage = 2 /\ c.stage = 1)
                  /\ d.pc = "done" => d = Evaluate([c EXCEPT !.msg = d.msg,
                         !.ok = TRUE, !.result = d.result], d.result)

C15_OnlyGetSignatureThrows ==
    \A p \in Procs : call[p].thrown => call[p].op = "getSignature"

\* every place of the target hash from the fourth entry on has a value "0"
\* among the three entries before it
ZeroBeforeEveryTarget(result, hash) ==
    \A i \in 4..Len(result) :
        result[i].hash = hash =>
            \E j \in (i - 3)..(i - 1) : result[j].value = <<"0">>

\* C18: hasValidEntries returns false when the three entries preceding the
\* target hash contain a transfer of value "0", whatever else holds
C18_ZeroValueInvalidates ==
    \A p \in Procs :
        (Done(p, "hasValidEntries") /\ call[p].ok
            /\ ZeroBeforeEveryTarget(call[p].result, call[p].args[3]))
        => call[p].ret = "boolean" /\ ~call[p].bval

\* the target is the fourth entry, its three predecessors have distinct
\* senders and one of them carries value "0"
C18_Witness ==
    \E p \in Procs :
        /\ Done(p, "hasValidEntries")
        /\ call[p].ok
        /\ Len(call[p].result) = 4
        /\ call[p].result[4].hash = call[p].args[3]
        /\ \A j \in 1..3 : call[p].result[j].hash # call[p].args[3]
        /\ Cardinality({ call[p].result[j].from : j \in 1..3 }) = 3
        /\ call[p].result[2].value = <<"0">>
        /\ call[p].result[1].value = <<"5">>
        /\ ~call[p].bval

----------------------------------------------------------------------------
(* Claims on haveInteractedWithSameAddress *)

Fanned(p) == call[p].op = "haveInteractedWithSameAddress"

\* the victims whose fetched history names address a as a `to`, the attacker
\* and the victim itself not counting as counterparties
VictimsSendingTo(c, a) ==
    { i \in 1..Len(c.legs) :
        /\ a # c.args[1]
        /\ a # c.args[2][i]
        /\ \E k \in 1..Len(c.legs[i].result) : c.legs[i].result[k].to = a }

SharedCounterparty(c) ==
    \E a \in {"x", "y", "att"} \cup { c.args[2][i] : i \in 1..Len(c.args[2]) } :
        2 * Cardinality(VictimsSendingTo(c, a)) >= Len(c.args[2])
        /\ VictimsSendingTo(c, a) # {}

\* C16: when every victim's fetch succeeds, the result is true iff some
\* address is a `to` in the histories of at least ceil(|victims|/2) distinct
\* victims (attacker and the victim itself excluded); false for no victims.
C16_MajorityCounterparty ==
    \A p \in Procs :
        (Done(p, "haveInteractedWithSameAddress") /\ call[p].ok) =>
            /\ call[p].ret = "boolean"
            /\ call[p].bval = SharedCounterparty(call[p])
            /\ Len(call[p].args[2]) = 0 => ~call[p].bval

\* 4 victims, exactly 2 of which share the counterparty "x"
C16_Witness ==
    \E p \in Procs :
        /\ Done(p, "haveInteractedWithSameAddress")
        /\ call[p].ok
        /\ Len(call[p].args[2]) = 4
        /\ Cardinality(VictimsSendingTo(call[p], "x")) = 2
        /\ VictimsSendingTo(call[p], "y") = {}
        /\ call[p].bval

C17_Step ==
    \A p \in Procs :
        LET c == call[p]
            d == call'[p]
            n == Len(d.legs)
        IN  Fanned(p)' =>
              \* one loop per victim, all begun by the call
              /\ n = Len(d.args[2])
              /\ \A i \in 1..n : d.legs[i].victim = d.args[2][i]
              /\ (~Fanned(p) \/ c.pc = "done") =>
                     \A i \in 1..n : d.legs[i] = NewLeg(d.args[2][i])
              \* the result is built only after every leg has finished
              /\ d.pc = "done" => \A i \in 1..n : d.legs[i].pc = "done"
              \* a leg that gave up makes the result true
              /\ (d.pc = "done" /\ \E i \in 1..n : d.legs[i].failed) => d.bval
              \* a leg gives up only on its own third failure
              /\ \A i \in 1..n :
                     d.legs[i].failed => d.legs[i].tries = 3
              \* a step of one leg leaves the siblings as they are
              /\ (Fanned(p) /\ c.pc = "await") =>
                     /\ Cardinality({ i \in 1..n : d.legs[i] # c.legs[i] }) <= 1
                     /\ \A i \in 1..n :
                            c.legs[i].pc = "done" => d.legs[i] = c.legs[i]

\* C17: one fetch loop per victim, run concurrently and aggregated after all
\* of them have finished; under every interleaving a leg that exhausts its 3
\* attempts makes the result true, and no leg cancels or shortens a sibling.
C17_FanOutJoin == [][C17_Step]_vars

\* the first leg gave up before its siblings finished, which then went on
\* to fetch histories without a shared counterparty
C17_Witness ==
    \E p \in Procs :
        /\ Done(p, "haveInteractedWithSameAddress")
        /\ Len(call[p].legs) = 3
        /\ call[p].legs[1].failed
        /\ call[p].legs[2].result = <<[to |-> "x"]>>
        /\ call[p].legs[3].result = <<[to |-> "y"]>>
        /\ call[p].bval
        /\ ~SharedCounterparty(call[p])

\* all three attempts of the loop the invocation was in have failed
Exhausted(c) == c.op \in ExplorerOps /\ c.pc = "done" /\ c.tries = 3 /\ ~c.ok

\* C14: when all 3 attempts fail (thrown error or soft-failure message each
\* time) the operation returns its fixed fallback: [null, null] for
\* getAddressInfo and getAddresses, true for haveInteractedAgain,
\* haveInteractedWithSameAddress and isRecentlyInvolvedInTransfer, false for
\* hasValidEntries and isValueUnique, "" for getSourceCode, 10 for
\* getNumberOfLogs; nothing is appended to the error collector.
C14_Fallbacks ==
    \A p \in Procs :
        LET c == call[p]
        IN  /\ Exhausted(c) =>
                /\ ~c.thrown
                /\ Len(errors) = c.errBase
                /\ c.op \in {"getAddressInfo", "getAddresses"} =>
                       c.ret = "null,null"
                /\ c.op \in {"haveInteractedAgain",
                             "isRecentlyInvolvedInTransfer"} =>
                       c.ret = "boolean" /\ c.bval
                /\ c.op \in {"hasValidEntries", "isValueUnique"} =>
                       c.ret = "boolean" /\ ~c.bval
                /\ c.op = "getSourceCode" => c.ret = ""
                /\ c.op = "getNumberOfLogs" => c.ret = "number" /\ c.nval = 10
            /\ (Done(p, "haveInteractedWithSameAddress")
                  /\ \E i \in 1..Len(c.legs) : c.legs[i].tries = 3) =>
                /\ c.ret = "boolean" /\ c.bval
                /\ ~c.thrown
                /\ Len(errors) = c.errBase

\* isRecentlyInvolvedInTransfer gave up after two thrown errors and one
\* soft failure
C14_Witness ==
    \E p \in Procs :
        /\ Exhausted(call[p])
        /\ call[p].op = "isRecentlyInvolvedInTransfer"
        /\ call[p].soft = 1
        /\ call[p].calls = 3
        /\ call[p].bval

----------------------------------------------------------------------------
(* Claims on getLabel *)

\* C20: getLabel returns "" without a remote call for a chain other than 1,
\* 137 and 250; for these it makes at most 3 attempts and returns the first
\* event's label of the first successful response ("" when it has no
\* events), "" when all 3 attempts fail; it never throws.
C20_GetLabel ==
    \A p \in Procs :
        LET c == call[p]
        IN  c.op = "getLabel" =>
              /\ c.calls <= 3
              /\ ~c.thrown
              /\ c.args[2] \notin {1, 137, 250} =>
                     c.pc = "done" /\ c.calls = 0 /\ c.ret = ""
              /\ (c.pc = "done" /\ c.args[2] \in {1, 137, 250}) =>
                     IF c.ok
                     THEN /\ c.calls = c.tries + 1
                          /\ c.ret = IF c.result = << >> THEN ""
                                     ELSE Head(c.result).label.label
                     ELSE c.tries = 3 /\ c.calls = 3 /\ c.ret = ""

\* the third attempt was the first to succeed, and its first event's label
\* is returned
C20_Witness ==
    \E p \in Procs :
        /\ Done(p, "getLabel")
        /\ call[p].ok
        /\ call[p].calls = 3
        /\ Len(call[p].result) = 2
        /\ call[p].ret = "phish"
        /\ call[p].result[2].label.label = "cex"

----------------------------------------------------------------------------
(* Claims on the predicates of hasValidEntries and isValueUnique *)

\* entry i (counted from 0) holds the target hash, i >= 3, and the entries
\* i-3..i-1 hold no value "0" and three different senders
EligibleAt(result, hash, i) ==
    /\ i >= 3
    /\ result[i + 1].hash = hash
    /\ \A j \in (i - 3)..(i - 1) : result[j + 1].value # <<"0">>
    /\ Cardinality({ result[j + 1].from : j \in (i - 3)..(i - 1) }) = 3

\* C29: hasValidEntries returns true iff the fetch succeeded and some entry
\* with the target hash sits at an index i >= 3 such that none of the entries
\* i-3..i-1 has value "0" and their `from` addresses are pairwise distinct;
\* false when the hash is absent or only among the first three entries.
C29_HasValidEntriesIff ==
    \A p \in Procs :
        Done(p, "hasValidEntries") =>
            LET c == call[p]
                at == { i \in 0..(Len(c.result) - 1) :
                          c.result[i + 1].hash = c.args[3] }
            IN  /\ c.ret = "boolean"
                /\ c.bval <=> (c.ok /\ \E i \in at :
                                   EligibleAt(c.result, c.args[3], i))
                /\ (\A i \in at : i < 3) => ~c.bval

\* the hash occurs twice: as the first entry, where it does not count, and
\* as the fourth entry behind a clean window
C29_Witness ==
    \E p \in Procs :
        /\ Done(p, "hasValidEntries")
        /\ call[p].ok
        /\ Len(call[p].result) = 4
        /\ call[p].result[4].hash = call[p].args[3]
        /\ call[p].result[1].hash = call[p].args[3]
        /\ EligibleAt(call[p].result, call[p].args[3], 3)
        /\ call[p].bval

\* C30: isValueUnique returns true iff the fetch succeeded and no returned
\* transaction with a hash other than the target hash has the given value;
\* the target transaction itself never counts, and an empty history that
\* was fetched successfully gives true.
C30_IsValueUniqueIff ==
    \A p \in Procs :
        Done(p, "isValueUnique") =>
            LET c == call[p]
                others == { i \in 1..Len(c.result) :
                              c.result[i].hash # c.args[3] }
            IN  /\ c.ret = "boolean"
                /\ c.bval <=> (c.ok /\ \A i \in others :
                                   c.result[i].value # c.args[4])
                /\ (c.ok /\ c.result = << >>) => c.bval

\* the only transaction carrying the value is the target itself
C30_Witness ==
    \E p \in Procs :
        /\ Done(p, "isValueUnique")
        /\ call[p].ok
        /\ Len(call[p].result) = 2
        /\ call[p].result[1].hash = call[p].args[3]
        /\ call[p].result[1].value = call[p].args[4]
        /\ call[p].result[2].hash # call[p].args[3]
        /\ call[p].result[2].value # call[p].args[4]
        /\ call[p].bval

----------------------------------------------------------------------------
(* Claims on the operations that keep no cache *)

UncachedOps == ExplorerOps \cup {"getStorageSlot", "getLabel",
                                 "haveInteractedWithSameAddress"}

caches == <<eoaCache, codeCache, functionCache, nonceCache, ownerCache>>

\* p begins an invocation in this step
Begins(p) == call[p].pc = "done" /\ call'[p] # call[p]

\* the invocation p has just begun has a remote fetch under way
Fetching(p) == call'[p].pc = "await" /\ call'[p].calls >= 1

\* C21 as stated: the operations without a cache leave the five caches
\* unchanged and issue a remote fetch on every call, a repeated call with
\* the same arguments included.
C21_FetchOnEveryCall ==
    [][\A p \in Procs :
          call'[p].op \in UncachedOps =>
              /\ call'[p] # call[p] => caches' = caches
              /\ Begins(p) => Fetching(p)]_vars

\* the calls that return without a fetch: a label for a chain that has no
\* label source, and a fan-out over no victims
NothingToFetch(c) ==
    \/ c.op = "getLabel" /\ c.args[2] \notin {1, 137, 250}
    \/ c.op = "haveInteractedWithSameAddress" /\ c.args[2] = << >>

\* C21 (amended): the operations without a cache never read or write a
\* cache, and every call issues a remote fetch, a repeated call with the
\* same arguments included, except getLabel for a chain other than 1, 137,
\* 250 and haveInteractedWithSameAddress with no victims, which issue none.
C21_UncachedOperations ==
    [][\A p \in Procs :
          call'[p].op \in UncachedOps =>
              /\ call'[p] # call[p] => caches' = caches
              /\ ~call'[p].hit
              /\ Begins(p) => (Fetching(p) <=> ~NothingToFetch(call'[p]))
              /\ (Begins(p) /\ NothingToFetch(call'[p])) =>
                     call'[p].calls = 0]_vars

\* getStorageSlot was called twice in a row for the same slot while the code
\* cache held an entry: both calls fetched, the cache is as it was
C21_Witness ==
    \E p \in Procs :
        /\ Done(p, "getStorageSlot")
        /\ prev.op = "getStorageSlot"
        /\ prev.key = call[p].key
        /\ prev.ok /\ call[p].ok
        /\ prev.calls = 1 /\ call[p].calls = 1
        /\ codeCache # << >>

----------------------------------------------------------------------------
(* Claims on termination *)

\* every invocation under way comes to its end
Terminates == \A p \in Procs : (call[p].pc # "done") ~> (call[p].pc = "done")

\* no retry loop issues more than 3 requests
AtMostThreeAttempts ==
    \A p \in Procs :
        /\ call[p].op # "haveInteractedWithSameAddress" =>
               call[p].calls <= 3 /\ call[p].tries <= 3
        /\ \A i \in 1..Len(call[p].legs) :
               call[p].legs[i].calls <= 3 /\ call[p].legs[i].tries <= 3

\* an invocation ends by returning a value; only getSignature may end by
\* throwing
EndsByReturning ==
    \A p \in Procs :
        (call[p].pc = "done" /\ call[p].thrown) => call[p].op = "getSignature"

\* C23: there is no cancellation: an operation that has begun a remote fetch
\* eventually returns (getSignature: or throws) after at most 3 attempts per
\* retry loop, for every pattern of remote successes and failures.
C23_ReturnsWithinThreeAttempts ==
    Terminates /\ []AtMostThreeAttempts /\ []EndsByReturning

\* the part of it that does not depend on how an invocation ends
TerminatesWithinThreeAttempts == Terminates /\ []AtMostThreeAttempts

----------------------------------------------------------------------------
(* Claims on the explorer API key *)

\* the key list configured for a chain ID
ListForChain(chainId) ==
    IF chainId = 10 THEN "optimisticEtherscanApiKeys"
    ELSE IF chainId = 56 THEN "bscscanApiKeys"
    ELSE IF chainId = 137 THEN "polygonscanApiKeys"
    ELSE IF chainId = 250 THEN "fantomscanApiKeys"
    ELSE IF chainId = 42161 THEN "arbiscanApiKeys"
    ELSE IF chainId = 43114 THEN "snowtraceApiKeys"
    ELSE "etherscanApiKeys"

\* C24: the key of an explorer URL is an element of the key list configured
\* for the call's chain ID (10, 56, 137, 250, 42161, 43114 have their own
\* list, every other chain the Etherscan list), the only key of a list of
\* one, and "YourApiKeyToken" for an empty list; every URL gets a key chosen
\* for it.
C24_KeyFromChainList ==
    \A p \in Procs :
        call[p].op \in UrlBuilders =>
            LET list == call[p].args[2][ListForChain(call[p].args[1])]
            IN  /\ list # << >> =>
                       \E i \in 1..Len(list) : call[p].ret = list[i]
                /\ Len(list) = 1 => call[p].ret = list[1]
                /\ list = << >> => call[p].ret = "YourApiKeyToken"

\* two URLs built one after the other for chain 56 carry different keys of
\* the BscScan list, while the Etherscan list is empty
C24_Witness ==
    \E p \in Procs :
        /\ call[p].op = "getLogsUrl"
        /\ call[p].args[1] = 56
        /\ call[p].args[2]["etherscanApiKeys"] = << >>
        /\ call[p].ret = "bscscanApiKeys-2"
        /\ call[p].resp = "bscscanApiKeys-1"

----------------------------------------------------------------------------
(* Claims on concurrent calls of the cached operations *)

\* the caches (eoa, code, nonce, function, owner) hold the result of the
\* finished invocation d under its key
HoldsResultOf(ec, cc, nc, fc, oc, d) ==
    CASE d.op = "getCode" -> LRUHas(cc, d.key) /\ LRUPeek(cc, d.key) = d.ret
      [] d.op = "isEoa" -> LRUHas(ec, d.key) /\ LRUPeek(ec, d.key) = d.bval
      [] d.op = "getNonce" -> LRUHas(nc, d.key) /\ LRUPeek(nc, d.key) = d.nval
      [] d.op = "getSignature" ->
            LRUHas(fc, d.key) /\ LRUPeek(fc, d.key) = d.body
      [] d.op = "getOwner" -> LRUHas(oc, d.key) /\ LRUPeek(oc, d.key) = d.ret

\* p returns from a remote fetch in this step
MissReturnsNow(p) == ReturnsNow(p) /\ ~call'[p].hit /\ call[p].pc # "done"

\* q has returned from a fetch for the operation and key of p and has
\* written its result to the cache: p, which missed too, overlapped with q
FinishedBefore(q, p) ==
    /\ q # p
    /\ call[q].pc = "done"
    /\ call[q].op = call[p].op
    /\ call[q].key = call[p].key
    /\ ~call[q].hit
    /\ Cacheable(call[q])

\* no entry of a key other than `key` is added, removed or changed
OthersUntouched(before, after, key) ==
    \A k \in (LRUKeys(before) \cup LRUKeys(after)) \ {key} :
        /\ LRUHas(before, k) /\ LRUHas(after, k)
        /\ LRUPeek(before, k) = LRUPeek(after, k)

\* C22 as stated: of two concurrent calls of a cached operation that both
\* miss, each issues its own fetch, both complete, the cache then holds the
\* value written by the call that finished last, and calls for different
\* keys never affect each other's cache entries or results.
C22_LastFinisherAndIsolation ==
    [][\A p \in Procs :
          call'[p] # call[p] =>
              /\ \A q \in Procs :
                     (MissReturnsNow(p) /\ FinishedBefore(q, p)) =>
                         HoldsResultOf(eoaCache', codeCache', nonceCache',
                                       functionCache', ownerCache', call'[p])
              /\ OthersUntouched(eoaCache, eoaCache', call'[p].key)
              /\ OthersUntouched(codeCache, codeCache', call'[p].key)
              /\ OthersUntouched(nonceCache, nonceCache', call'[p].key)
              /\ OthersUntouched(functionCache, functionCache', call'[p].key)
              /\ OthersUntouched(ownerCache, ownerCache', call'[p].key)]_vars

\* a key other than `key` keeps its value while it stays; it goes only as
\* the least recently used entry of a full cache into which `key` is put
OthersKeepValue(before, after, key, max) ==
    \A k \in (LRUKeys(before) \cup LRUKeys(after)) \ {key} :
        /\ LRUHas(before, k)
        /\ IF LRUHas(after, k)
           THEN LRUPeek(before, k) = LRUPeek(after, k)
           ELSE /\ Len(before) = max
                /\ ~LRUHas(before, key)
                /\ LRUHas(after, key)
                /\ k = before[1].k

\* the result of a call that fetched is made of the answer to its own fetch
OwnResult(d) ==
    IF d.ok
    THEN CASE d.op = "getCode" -> d.ret = d.resp
           [] d.op = "isEoa" -> d.ret = "boolean" /\ d.bval = (d.resp = "0x")
           [] d.op = "getNonce" -> d.nval = d.resp
           [] d.op = "getSignature" ->
                 d.ret = "string" => d.body = d.resp
           [] d.op = "getOwner" -> d.ret = d.resp
    ELSE CASE d.op \in {"getCode", "isEoa"} -> d.ret = Undefined
           [] d.op = "getNonce" -> d.nval = NonceSentinel
           [] d.op = "getSignature" -> d.thrown
           [] d.op = "getOwner" -> d.ret = ""

C22_Step ==
    \A p \in Procs :
        call'[p] # call[p] =>
            /\ MissReturnsNow(p) =>
                  /\ call'[p].calls >= 1
                  /\ OwnResult(call'[p])
                  /\ IF Cacheable(call'[p])
                     THEN HoldsResultOf(eoaCache', codeCache', nonceCache',
                                        functionCache', ownerCache', call'[p])
                     ELSE caches' = caches
            /\ \A q \in Procs \ {p} : call'[q] = call[q]
            /\ OthersKeepValue(eoaCache, eoaCache', call'[p].key, eoaCacheMax)
            /\ OthersKeepValue(codeCache, codeCache', call'[p].key,
                               codeCacheMax)
            /\ OthersKeepValue(nonceCache, nonceCache', call'[p].key,
                               nonceCacheMax)
            /\ OthersKeepValue(functionCache, functionCache', call'[p].key,
                               functionCacheMax)
            /\ OthersKeepValue(ownerCache, ownerCache', call'[p].key,
                               ownerCacheMax)

\* C22 (amended): of two concurrent calls of a cached operation that both
\* miss, each issues its own fetch and returns the result of its own fetch;
\* a call that returns a cacheable result overwrites the entry of its key,
\* so the cache holds the value of the last call that wrote, and a call
\* whose result is not cached changes no cache; a call never changes the
\* value cached under another key nor the state of another call, and
\* removes another key only by evicting the least recently used entry of a
\* full cache.
C22_ConcurrentMisses == [][C22_Step]_vars

\* both callers missed for the same address and fetched different nonces;
\* the cache holds the second caller's, who finished last
C22_Witness ==
    /\ Done(1, "getNonce") /\ Done(2, "getNonce")
    /\ call[1].key = call[2].key
    /\ ~call[1].hit /\ ~call[2].hit
    /\ call[1].ok /\ call[2].ok
    /\ call[1].calls = 1 /\ call[2].calls = 2
    /\ call[1].nval = 0 /\ call[2].nval = 7
    /\ LRUPeek(nonceCache, call[1].key) = 7

----------------------------------------------------------------------------
(* The large-position bot *)

LargePositionDone(p) == Done(p, "Large-Position-Alert")

\* the Work events that the claim says are reported: the emitting address
\* has a threshold and the loan is greater than it
RECURSIVE ExpectedFindings(_, _)
ExpectedFindings(vaultsMap, workEvents) ==
    IF workEvents = << >>
    THEN << >>
    ELSE LET e == Head(workEvents)
             rest == ExpectedFindings(vaultsMap, Tail(workEvents))
         IN IF /\ e.address \in DOMAIN vaultsMap
               /\ GreaterThan(e.loan, vaultsMap[e.address])
            THEN <<createFinding(e.id, e.loan, e.address)>> \o rest
            ELSE rest

\* C25: the findings of a transaction are, in event order, one ALPACA-1
\* finding (position id, loan amount, emitting address) for each Work event
\* whose emitting address has a configured threshold and whose loan is
\* strictly greater than it, and nothing for any other Work event.
C25_FindingIffLoanAboveThreshold ==
    \A p \in SeqProcs :
        LargePositionDone(p) =>
            call[p].result =
                ExpectedFindings(call[p].args[1], call[p].args[2])

----------------------------------------------------------------------------
(* The lottery-address bot *)

LotteryDone(p) == Done(p, "Lottery")

\* C28: a handleTransaction of the lottery-address bot has called filterLog
\* exactly once, with the NewOperatorAndTreasuryAndInjectorAddresses event
\* and the lottery address; it returns one PCSLottery-2 finding per event
\* returned (none when there is none), in order, whose metadata holds the
\* operator, treasury and injector of the event and nothing else.
C28_OneFindingPerLotteryEvent ==
    \A p \in SeqProcs :
        LotteryDone(p) =>
            /\ call[p].legs = <<<<NewOperatorAndTreasuryAndInjectorAddresses,
                                  PANCAKE_SWAP_LOTTERY_ADDRESS>>>>
            /\ Len(call[p].result) = Len(call[p].args)
            /\ \A i \in 1..Len(call[p].args) :
                   /\ call[p].result[i].alertId = "PCSLottery-2"
                   /\ DOMAIN call[p].result[i].metadata =
                          {"operator", "treasury", "injector"}
                   /\ \A k \in {"operator", "treasury", "injector"} :
                          call[p].result[i].metadata[k] = call[p].args[i][k]

\* a transaction with two events of different operators, the first sent
\* from an address that is not its operator
C28_Witness ==
    \E p \in SeqProcs :
        /\ LotteryDone(p)
        /\ Len(call[p].args) = 2
        /\ call[p].args[1].operator # call[p].args[2].operator
        /\ call[p].args[1].from # call[p].args[1].operator
        /\ Len(call[p].result) = 2

----------------------------------------------------------------------------
(* The private-key-compromise bot *)

PkcDone(p) == Done(p, "private-key-compromise")

\* the victims recorded for a receiver, in arrival order
VictimsOf(c, to) ==
    [i \in 1..Len(RecordsOf(c.transferObj, to)) |->
         RecordsOf(c.transferObj, to)[i].victimAddress]

AssetsOf(c, to) ==
    { RecordsOf(c.transferObj, to)[i].transferredAsset :
          i \in 1..Len(RecordsOf(c.transferObj, to)) }

SeqRange(q) == { q[i] : i \in 1..Len(q) }

\* the transaction handled by the step is a transfer by a victim that the
\* receiver has not seen
NewVictim(p) ==
    LET tx == call'[p].args[1]
    IN /\ IsTransfer(tx)
       /\ tx.from \notin SeqRange(VictimsOf(call[p], tx.to))

\* C26, one handleTransaction: native transfers and balance-emptying token
\* transfers of new victims are counted together, one victim each, and
\* nothing else is counted; a transaction that leaves its receiver with
\* fewer than 4 distinct victims returns no finding; the transaction that
\* brings the 4th distinct victim to a receiver that is an EOA returns
\* exactly one PKC-1 finding naming the receiver as attacker, the 4 victims
\* in arrival order and each transferred asset once.
C26_Step ==
    \A p \in SeqProcs :
        PkcDone(p)' =>
            LET tx == call'[p].args[1]
                before == VictimsOf(call[p], tx.to)
                after == VictimsOf(call'[p], tx.to)
                findings == call'[p].result
            IN /\ after = IF NewVictim(p) THEN Append(before, tx.from)
                          ELSE before
               /\ Len(after) < 4 => findings = << >>
               /\ (Len(before) = 3 /\ Len(after) = 4
                                   /\ tx.to \in EoaReceivers) =>
                      /\ Len(findings) = 1
                      /\ findings[1].alertId = "PKC-1"
                      /\ findings[1].metadata.attacker = tx.to
                      /\ findings[1].metadata.victims =
                             Append(before, tx.from)
                      /\ SeqRange(findings[1].metadata.transferredAssets) =
                             AssetsOf(call'[p], tx.to)
                      /\ Len(findings[1].metadata.transferredAssets) =
                             Cardinality(AssetsOf(call'[p], tx.to))

C26_FourthVictimAlerts == [][C26_Step]_vars

\* the 4th victim has sent a native transfer to the EOA r1 after a token
\* transfer of another victim, and the finding names both assets
C26_Witness ==
    \E p \in SeqProcs :
        /\ PkcDone(p)
        /\ call[p].args[1].to = "r1"
        /\ call[p].args[1].kind = "native"
        /\ Len(VictimsOf(call[p], "r1")) = 4
        /\ Len(call[p].result) = 1
        /\ call[p].result[1].metadata.transferredAssets = <<"ETH", Token>>
        /\ call[p].result[1].metadata.victims[4] = call[p].args[1].from

\* C27, one handleTransaction: a receiver that already had its 4 victims,
\* and so its finding, gets no further finding, whoever transfers to it.
C27_Step ==
    \A p \in SeqProcs :
        PkcDone(p)' =>
            LET tx == call'[p].args[1]
            IN (/\ tx.to \in EoaReceivers
                /\ Len(VictimsOf(call[p], tx.to)) >= 4) =>
                   call'[p].result = << >>

----------------------------------------------------------------------------
(* Claim on the predicate of isRecentlyInvolvedInTransfer *)

\* the number a decimal block number of the answers stands for
BlockOf(tx) ==
    CASE tx.blockNumber = <<"8", "9">> -> 89
      [] tx.blockNumber = <<"9", "0">> -> 90
      [] tx.blockNumber = <<"9", "9">> -> 99
      [] tx.blockNumber = <<"1", "0", "0">> -> 100

\* a transaction other than the target that moved value
OtherTransfer(tx, hash) == tx.hash # hash /\ tx.value # <<"0">>

\* C31: isRecentlyInvolvedInTransfer, when the fetch succeeds, returns true
\* iff some returned transaction other than the target hash has a value
\* other than "0" and a block number b with blockNumber - 10 <= b <
\* blockNumber; the target's own block and blocks more than 10 earlier do
\* not count.
C31_RecentTransferIff ==
    \A p \in Procs :
        (Done(p, "isRecentlyInvolvedInTransfer") /\ call[p].ok) =>
            LET c == call[p]
                blockNumber == c.args[4]
                others == { i \in 1..Len(c.result) :
                              OtherTransfer(c.result[i], c.args[2]) }
            IN  /\ c.ret = "boolean"
                /\ c.bval <=> \E i \in others :
                       /\ blockNumber - 10 <= BlockOf(c.result[i])
                       /\ BlockOf(c.result[i]) < blockNumber
                /\ (\A i \in others :
                       \/ BlockOf(c.result[i]) = blockNumber
                       \/ BlockOf(c.result[i]) < blockNumber - 10) => ~c.bval

\* the answer holds transfers in the target's own block and 11 blocks
\* before it and nothing in the window: false is returned
C31_Witness ==
    \E p \in Procs :
        /\ Done(p, "isRecentlyInvolvedInTransfer")
        /\ call[p].ok
        /\ \E i, j \in 1..Len(call[p].result) :
               /\ OtherTransfer(call[p].result[i], call[p].args[2])
               /\ BlockOf(call[p].result[i]) = call[p].args[4]
               /\ OtherTransfer(call[p].result[j], call[p].args[2])
               /\ BlockOf(call[p].result[j]) = call[p].args[4] - 11
        /\ ~call[p].bval

----------------------------------------------------------------------------
(* The Auto-CAKE admin bot *)

AutoCakeDone(p) == Done(p, "Auto-CAKE-Admin-Operations")

\* C32: the handler returns one finding per function call that
\* filterFunction returned, in the same order (none when there is no call);
\* the finding is named after the called function, and its metadata keys
\* are the call's argument keys from index floor(n / 2) on, n being the
\* number of argument keys, each with its value as a string.
C32_FindingPerFunctionCall ==
    \A p \in SeqProcs :
        AutoCakeDone(p) =>
            /\ Len(call[p].result) = Len(call[p].args)
            /\ \A i \in 1..Len(call[p].args) :
                 LET functionCall == call[p].args[i]
                     allKeys == ObjectKeys(functionCall.params)
                     n == Len(allKeys)
                     metadata == call[p].result[i][3]
                 IN /\ call[p].result[i][1] = functionCall.name
                    /\ DOMAIN metadata =
                           { allKeys[j + 1] : j \in (n \div 2)..(n - 1) }
                    /\ \A j \in (n \div 2)..(n - 1) :
                           metadata[allKeys[j + 1]] =
                               ValueToString(
                                   ArgOf(functionCall.params, allKeys[j + 1]))

\* a call without arguments and then setFees(1, 25), whose keys are "0",
\* "1" and "_callFee": the first finding has no metadata, the second holds
\* "1" and "_callFee", both "25"
C32_Witness ==
    \E p \in SeqProcs :
        /\ AutoCakeDone(p)
        /\ Len(call[p].args) = 2
        /\ call[p].args[1].name = "pause"
        /\ call[p].args[2].name = "setFees"
        /\ call[p].args[2].params[1].value = NumberValue(1)
        /\ DOMAIN call[p].result[1][3] = {}
        /\ call[p].result[2] =
               <<"setFees", "setFees",
                 [key \in {"1", "_callFee"} |-> "25"]>>

----------------------------------------------------------------------------
(* Claim on the lifetime of an isEoa answer *)

\* an invocation of isEoa(address) begins in this step
IsEoaBegins(p, address) ==
    /\ call[p].pc = "done"
    /\ started' # started
    /\ call'[p].op = "isEoa"
    /\ call'[p].key = address

\* C33, one step: an isEoa that returns true or false leaves that value in
\* eoaCache; while the entry is there its value does not change and an
\* isEoa for the address returns it at once, with no provider call,
\* whatever the provider has answered since; the entry goes only when
\* another address is inserted into the full cache.
C33_Step ==
    /\ \A p \in SeqProcs :
          (ReturnsNow(p) /\ call'[p].op = "isEoa"
                         /\ call'[p].ret = "boolean") =>
              /\ LRUHas(eoaCache', call'[p].key)
              /\ LRUPeek(eoaCache', call'[p].key) = call'[p].bval
    /\ \A a \in Addresses :
          LRUHas(eoaCache, a) =>
              /\ LRUHas(eoaCache', a) =>
                     LRUPeek(eoaCache', a) = LRUPeek(eoaCache, a)
              /\ ~LRUHas(eoaCache', a) =>
                     /\ Len(eoaCache) = eoaCacheMax
                     /\ \E b \in Addresses \ {a} :
                            ~LRUHas(eoaCache, b) /\ LRUHas(eoaCache', b)
              /\ \A p \in SeqProcs :
                     IsEoaBegins(p, a) =>
                         /\ call'[p].pc = "done"
                         /\ call'[p].calls = 0
                         /\ call'[p].ret = "boolean"
                         /\ call'[p].bval = LRUPeek(eoaCache, a)

C33_IsEoaAnswerIsKept == [][C33_Step]_vars

\* isEoa has just returned true from eoaCache, with no provider call, for
\* an address whose bytecode getCode has fetched and cached in between
C33_Witness ==
    \E p \in SeqProcs :
        /\ Done(p, "isEoa")
        /\ call[p].hit
        /\ call[p].calls = 0
        /\ call[p].bval
        /\ prev.op = "getCode"
        /\ prev.key = call[p].key
        /\ prev.calls >= 1
        /\ prev.ret # "0x"
        /\ LRUHas(codeCache, call[p].key)
        /\ LRUPeek(codeCache, call[p].key) = prev.ret

----------------------------------------------------------------------------
(* The default configuration of the large-position bot *)

\* the findings of the default handler for Work events of the vault
FindingsFor(p, vault) ==
    SelectSeq(call[p].result, LAMBDA f : f.vault = vault)

\* C34: every (address, threshold) pair written in VAULTS_MAP is the
\* threshold the default handler uses for that address: a Work event from a
\* listed address yields a finding iff its loan is greater than the
\* threshold listed with the address, for each of the six entries.
C34_EveryListedThresholdApplies ==
    \A p \in SeqProcs :
        (Done(p, "Large-Position-Alert default")
            /\ Len(call[p].args[2]) = 1) =>
            LET e == call[p].args[2][1]
            IN \A i \in 1..Len(VaultEntries) :
                   VaultEntries[i][1] = e.address =>
                       (Len(FindingsFor(p, e.address)) = 1
                            <=> GreaterThan(e.loan, VaultEntries[i][2]))

====
